---------------------------- MODULE Spec2Model ----------------------------
(***************************************************************************)
(* Detection-and-throttling pipeline of the guardian-alert camera program. *)
(*                                                                         *)
(*   database.py  the upload scheduler: save_motion_detection,             *)
(*                save_face_detection, their deferred upload threads and   *)
(*                get_firebase_upload_status, all sharing the global       *)
(*                last_firebase_upload_time;                               *)
(*   main.py      FaceMotionDetector: the producer loop (process_frames),  *)
(*                the motion decision, the face classification, the        *)
(*                per-kind cooldowns and the frame slot read by the        *)
(*                stream consumers (get_frame).                            *)
(*                                                                         *)
(* Time is the value of time.time() in whole seconds; a face distance is   *)
(* counted in hundredths (42 is 0.42) and so is a confidence in percent    *)
(* (5800 is 58.00 %); a contour area is a whole number of pixels.          *)
(*                                                                         *)
(* Specifications:                                                         *)
(*   Spec        database.py, save_* called by threads of any kind         *)
(*   SpecApp     main.py as composed: the producer loop, any stage of      *)
(*               which may raise, is the only caller of save_*             *)
(*   SpecStream  the producer loop and the stream consumers on the frame   *)
(*               slot and its lock                                         *)
(*   SpecFace    the face classification applied to any gallery            *)
(*   SpecSmallMotion  the motion decision applied to many small contours   *)
(*   SpecStatus  Spec with a caller of get_firebase_upload_status          *)
(*   SpecAppLive SpecApp with the producer thread never stopping           *)
(*   SpecFault   the producer loop with a missing camera and with stages   *)
(*               that raise                                                *)
(*   SpecConfidence  the confidence of a motion event applied to any area  *)
(*   SpecRetry   SpecApp with the producer and the time never stopping     *)
(*   SpecStreamLive  SpecStream, the camera seeing one scene, with every   *)
(*               thread going on with its own steps                        *)
(*   SpecTick    SpecApp with capture steps that raise and ticks that last *)
(*               as long as the upload delay and longer                    *)
(*   SpecMotionEvent  the motion event of a tick, for any contours         *)
(***************************************************************************)
EXTENDS Integers, Sequences, FiniteSets, TLC

VARIABLES
    clock,                       \* time.time()
    last_firebase_upload_time,   \* database.py global
    call,                        \* per calling thread: its save_* activation
    threads,                     \* deferred upload threads alive
    uploads,                     \* history of the persistence calls (doc_ref.set)
    submitted,                   \* number of save_* calls entered so far
    pc,                          \* the producer loop's position
    frame,                       \* the frame of the current tick
    lv,                          \* locals of the stage the producer is in
    previous_frame,              \* self.previous_frame
    motion_detected,             \* self.motion_detected (display-active)
    motion_timer,                \* self.motion_timer
    last_motion_time,            \* self.last_motion_time
    last_face_detection_time,    \* self.last_face_detection_time
    known_names,                 \* self.known_names
    known_encodings,             \* self.known_encodings
    camera_initialized,          \* self.camera_initialized and self.camera is not None
    pause,                       \* argument of the time.sleep the producer is in, in tenths of a second
    raised,                      \* the stage of the current tick that raised, or "none"
    current_frame,               \* self.current_frame, the frame slot
    frame_lock,                  \* holder of self.frame_lock
    reader,                      \* per stream consumer: its get_frame activation
    written,                     \* the frame of the last completed write
    accepted,                    \* history of the events the producer accepted
    tick_accepted,               \* the events accepted in the tick in progress
    input,                       \* argument of the function under check
    output,                      \* its result
    status                       \* the activation of get_firebase_upload_status: its locals

dbvars  == <<last_firebase_upload_time, call, threads, uploads, submitted>>
detvars == <<pc, frame, lv, previous_frame, motion_detected, motion_timer, last_motion_time, last_face_detection_time, known_names, known_encodings, camera_initialized, pause, raised, accepted, tick_accepted>>
slotvars == <<current_frame, frame_lock, reader, written>>
fnvars  == <<input, output, status>>

vars == <<clock, dbvars, detvars, slotvars, fnvars>>

---------------------------------------------------------------------------
(* Program constants.                                                      *)

FIREBASE_UPLOAD_DELAY   == 30      \* database.py, seconds
motion_cooldown         == 30      \* main.py __init__, seconds
face_detection_cooldown == 30      \* main.py __init__, seconds
motion_display_duration == 3       \* main.py __init__, seconds
min_motion_area         == 200     \* main.py __init__, pixels
AggregateArea           == 1000    \* main.py line 185, pixels
Tolerance               == 50      \* tolerance=0.5, in hundredths
MinConfidence           == 60      \* 60.0 percent
One                     == 100     \* the distance 1.0, in hundredths

(* Bounds of the model.                                                    *)

BootTime   == 40     \* time.time() when the process starts (any value > 30)
Horizon    == 35     \* Spec: the clock runs from BootTime to BootTime + Horizon
AppHorizon == 33     \* SpecApp: the same
FaultHorizon == 6    \* SpecFault and SpecStream: the same
NumCallers == 1      \* threads other than the producer that call save_*
MaxEvents  == 3      \* save_* calls entered in one behaviour
NumReaders == 2      \* stream consumers calling get_frame
MaxGallery == 3      \* known encodings of a gallery under check
MaxContours == 2     \* contours of one method under check
MaxSmallContours == 6  \* background-model contours at or below min_motion_area
MaxArea    == 1250   \* SpecConfidence: the largest area of a motion event
TickHorizon == 45    \* SpecTick: the clock runs from BootTime to BootTime + TickHorizon
StatusEvents == 2    \* SpecStatus: save_* calls entered in one behaviour
RetryGateDelay == 30 \* SpecRetry: the longest time from a current_time to the last statement that reads it
RetryPast  == 75     \* SpecRetry: the age from which a stored time is not told from an older one

(* Spec: the times after BootTime at which the clock is seen: within the   *)
(* upload delay of the start, at the end of it, and after it.              *)
Instants == {5, 30, 35}

(* The amounts by which the clock is seen to advance between two steps in  *)
(* SpecFault.                                                              *)
AppClockSteps == {3, 27, 30}

(* SpecApp: the times after BootTime at which the clock is seen: less than *)
(* the cooldowns and the upload delay after the start, equal to them, and  *)
(* more, each motion_display_duration after the one before.                *)
AppInstants == {27, 30, 33}

(* The same in SpecRetry: half of the upload delay, and all of it.         *)
RetryClockSteps == {15, 30}

Producer == 0
ExternalCallers == 1..NumCallers
Callers == {Producer} \cup ExternalCallers

NoResult == [status |-> "none", delay_seconds |-> 0]

IdleCall == [pc |-> "idle", kind |-> "motion", ev |-> 0, current_time |-> 0,
             remaining_delay |-> 0, result |-> NoResult]

(* A thread whose save_* call has returned `result` and that has not yet   *)
(* gone on: the locals are gone.                                           *)
Returned(result) == [IdleCall EXCEPT !.pc = "returned", !.result = result]

dbrest == <<last_firebase_upload_time, threads, uploads, submitted>>

---------------------------------------------------------------------------
(* database.py: the upload scheduler.                                      *)

(* No call of get_firebase_upload_status() is in progress.                 *)
NoStatus == [pc |-> "idle", current_time |-> 0, time_since_last_upload |-> 0, remaining_delay |-> 0]

(* The locals with remaining_delay not clamped at 0.                       *)
StatusLocals_unclamped(current_time, last_upload_time) ==
    LET time_since_last_upload == current_time - last_upload_time
    IN  [ pc                     |-> "return",
          current_time           |-> current_time,
          time_since_last_upload |-> time_since_last_upload,
          remaining_delay        |-> FIREBASE_UPLOAD_DELAY - time_since_last_upload ]

(* get_firebase_upload_status(), lines 263-264: the locals computed from   *)
(* current_time and the value of the global read at line 263.              *)
StatusLocals(current_time, last_upload_time) ==
    LET time_since_last_upload == current_time - last_upload_time
        diff                   == FIREBASE_UPLOAD_DELAY - time_since_last_upload
    IN  [ pc                     |-> "return",
          current_time           |-> current_time,
          time_since_last_upload |-> time_since_last_upload,
          remaining_delay        |-> IF diff > 0 THEN diff ELSE 0 ]

(* get_firebase_upload_status(), lines 266-272: the dict built from the    *)
(* locals and the value of the global read again at line 267.              *)
StatusDict(locals, last_upload_time) ==
    [ last_upload_time       |-> last_upload_time,
      time_since_last_upload |-> locals.time_since_last_upload,
      remaining_delay        |-> locals.remaining_delay,
      can_upload_now         |-> locals.remaining_delay <= 0,
      upload_delay_seconds   |-> FIREBASE_UPLOAD_DELAY ]

(* get_firebase_upload_status(), lines 258-272, called by a thread while   *)
(* no other thread stores last_firebase_upload_time.                       *)
get_firebase_upload_status ==
    StatusDict(StatusLocals(clock, last_firebase_upload_time), last_firebase_upload_time)

(* The branch test with the boundary left out.                            *)
UploadsImmediately_strict(current_time, last) ==
    current_time - last > FIREBASE_UPLOAD_DELAY

(* The branch test of save_*, lines 70 and 136.                            *)
UploadsImmediately(current_time, last) ==
    current_time - last >= FIREBASE_UPLOAD_DELAY

(* remaining_delay with the operands of the subtraction exchanged.         *)
RemainingDelay_swapped(current_time, last) ==
    FIREBASE_UPLOAD_DELAY - (last - current_time)

(* remaining_delay of save_*, lines 77 and 143.                            *)
RemainingDelay(current_time, last) ==
    FIREBASE_UPLOAD_DELAY - (current_time - last)

(* doc_ref.set(doc_data) inside delayed_upload, lines 56-57 and 122-123:   *)
(* one persistence call, recorded with the clock at which it is made.      *)
Persist(ev, kind, via) ==
    uploads' = Append(uploads, [ev |-> ev, kind |-> kind, time |-> clock, via |-> via])

(* save_motion_detection / save_face_detection entered by thread c:        *)
(* current_time = time.time(), lines 67 and 133.                           *)
SaveEnter(c, kind) ==
    /\ call[c].pc = "idle"
    /\ submitted < MaxEvents
    /\ submitted' = submitted + 1
    /\ call' = [call EXCEPT ![c] =
                  [ pc              |-> "test",
                    kind            |-> kind,
                    ev              |-> submitted + 1,
                    current_time    |-> clock,
                    remaining_delay |-> 0,
                    result          |-> NoResult ]]
    /\ UNCHANGED <<clock, last_firebase_upload_time, threads, uploads>>

(* The branch test, lines 70 and 136, on current_time and the value the    *)
(* global has now.                                                         *)
SaveTest(c) ==
    /\ call[c].pc = "test"
    /\ call' = [call EXCEPT ![c].pc =
                  IF UploadsImmediately(call[c].current_time, last_firebase_upload_time)
                  THEN "upload" ELSE "delay"]
    /\ UNCHANGED <<clock, last_firebase_upload_time, threads, uploads, submitted>>

(* result = delayed_upload() on the immediate branch, lines 72 and 138:    *)
(* the persistence call is made at the time the clock has by then, and     *)
(* blocks the caller until it returns.                                     *)
SaveUpload(c) ==
    /\ call[c].pc = "upload"
    /\ Persist(call[c].ev, call[c].kind, "immediate")
    /\ call' = [call EXCEPT ![c].pc = "store"]
    /\ UNCHANGED <<clock, last_firebase_upload_time, threads, submitted>>

(* The immediate branch calling delayed_upload again after it failed.      *)
SaveStore_retry(c) ==
    /\ call[c].pc = "store"
    /\ \E ok \in BOOLEAN :
          IF ok
          THEN /\ last_firebase_upload_time' = call[c].current_time
               /\ call' = [call EXCEPT ![c] = Returned([status |-> "doc", delay_seconds |-> 0])]
          ELSE /\ last_firebase_upload_time' = last_firebase_upload_time
               /\ call' = [call EXCEPT ![c].pc = "upload"]
    /\ UNCHANGED <<clock, threads, uploads, submitted>>

(* The immediate branch storing the time only when the document was       *)
(* written.                                                                *)
SaveStore_on_success(c) ==
    /\ call[c].pc = "store"
    /\ \E ok \in BOOLEAN :
          /\ last_firebase_upload_time' = IF ok THEN call[c].current_time
                                          ELSE last_firebase_upload_time
          /\ call' = [call EXCEPT ![c] = Returned([status |-> IF ok THEN "doc" ELSE "none",
                                                   delay_seconds |-> 0])]
    /\ UNCHANGED <<clock, threads, uploads, submitted>>

(* The persistence call has returned: delayed_upload returns the document, *)
(* or None when doc_ref.set raised (lines 60-64 and 126-130); then          *)
(* last_firebase_upload_time = current_time; return result, lines 73-74    *)
(* and 139-140.                                                            *)
SaveStore(c) ==
    /\ call[c].pc = "store"
    /\ last_firebase_upload_time' = call[c].current_time
    /\ \E ok \in BOOLEAN :
          call' = [call EXCEPT ![c] = Returned([status |-> IF ok THEN "doc" ELSE "none",
                                                delay_seconds |-> 0])]
    /\ UNCHANGED <<clock, threads, uploads, submitted>>

(* The value of last_firebase_upload_time that line 77 or 143 read, from   *)
(* the remaining_delay it gave.                                            *)
Snapshot(activation) ==
    activation.current_time + activation.remaining_delay - FIREBASE_UPLOAD_DELAY

(* The deferred branch, lines 75-78 and 141-144: remaining_delay is        *)
(* computed from a second read of last_firebase_upload_time.               *)
SaveDelay(c) ==
    /\ call[c].pc = "delay"
    /\ call' = [call EXCEPT ![c].pc = "schedule",
                            ![c].remaining_delay =
                                RemainingDelay(call[c].current_time, last_firebase_upload_time)]
    /\ UNCHANGED <<clock, last_firebase_upload_time, threads, uploads, submitted>>

(* The deferred branch giving a new thread its turn after the threads      *)
(* that are already waiting.                                               *)
SaveSchedule_serialized(c) ==
    /\ call[c].pc = "schedule"
    /\ LET remaining_delay == call[c].remaining_delay
           waiting == {t \in threads : t.pc = "sleep"}
           turn    == IF waiting = {} THEN clock + remaining_delay
                      ELSE FIREBASE_UPLOAD_DELAY
                             + (CHOOSE w \in {t.wake : t \in waiting} :
                                   \A t \in waiting : t.wake <= w)
       IN  /\ threads' = IF remaining_delay >= 0
                         THEN threads \cup {[ ev        |-> call[c].ev,
                                              kind      |-> call[c].kind,
                                              snapshot  |-> Snapshot(call[c]),
                                              wake      |-> turn,
                                              pc        |-> "sleep" ]}
                         ELSE threads
           /\ call' = [call EXCEPT ![c] = Returned([status |-> "scheduled",
                                                    delay_seconds |-> remaining_delay])]
    /\ UNCHANGED <<clock, last_firebase_upload_time, uploads, submitted>>

(* The deferred branch, lines 81-93 and 147-159: the thread is started and *)
(* sleeps remaining_delay from the time the clock has by then (a thread    *)
(* that begins to sleep later uploads later, as ThreadUpload allows);      *)
(* time.sleep of a negative length raises in the new thread, which then    *)
(* ends without uploading.                                                 *)
SaveSchedule(c) ==
    /\ call[c].pc = "schedule"
    /\ LET remaining_delay == call[c].remaining_delay
       IN  /\ threads' = IF remaining_delay >= 0
                         THEN threads \cup {[ ev        |-> call[c].ev,
                                              kind      |-> call[c].kind,
                                              snapshot  |-> Snapshot(call[c]),
                                              wake      |-> clock + remaining_delay,
                                              pc        |-> "sleep" ]}
                         ELSE threads
           /\ call' = [call EXCEPT ![c] = Returned([status |-> "scheduled",
                                                    delay_seconds |-> remaining_delay])]
    /\ UNCHANGED <<clock, last_firebase_upload_time, uploads, submitted>>

(* return result, lines 74 and 140, and return {"status": "scheduled",     *)
(* ...}, lines 93 and 159: the caller has the result and goes on.          *)
SaveReturn(c) ==
    /\ call[c].pc = "returned"
    /\ call' = [call EXCEPT ![c] = IdleCall]
    /\ UNCHANGED <<clock, last_firebase_upload_time, threads, uploads, submitted>>

(* scheduled_upload after time.sleep(remaining_delay) has returned:        *)
(* result = delayed_upload(), lines 82-83 and 148-149.                     *)
ThreadUpload(t) ==
    /\ t.pc = "sleep"
    /\ clock >= t.wake
    /\ Persist(t.ev, t.kind, "deferred")
    /\ threads' = (threads \ {t}) \cup {[t EXCEPT !.pc = "store"]}
    /\ UNCHANGED <<clock, last_firebase_upload_time, call, submitted>>

(* The thread storing the time it was due instead of the time it ran.      *)
ThreadStore_planned(t) ==
    /\ t.pc = "store"
    /\ last_firebase_upload_time' = t.wake
    /\ threads' = threads \ {t}
    /\ UNCHANGED <<clock, call, uploads, submitted>>

(* last_firebase_upload_time = time.time(), lines 85 and 151; the thread   *)
(* ends.                                                                   *)
ThreadStore(t) ==
    /\ t.pc = "store"
    /\ last_firebase_upload_time' = clock
    /\ threads' = threads \ {t}
    /\ UNCHANGED <<clock, call, uploads, submitted>>

(* Time passes, between any two statements of any thread: nothing holds    *)
(* the clock while a save_* call is in progress.                           *)
TickTo(instants, until) ==
    /\ \E d \in instants :
          /\ d <= until
          /\ BootTime + d > clock
          /\ clock' = BootTime + d
    /\ UNCHANGED <<last_firebase_upload_time, call, threads, uploads, submitted>>

(* The same, the clock advancing by one of the amounts `steps`.            *)
Tick(steps, until) ==
    /\ \E d \in steps :
          /\ clock + d <= until
          /\ clock' = clock + d
    /\ UNCHANGED <<last_firebase_upload_time, call, threads, uploads, submitted>>

---------------------------------------------------------------------------
(* main.py: the face classification of recognize_faces, lines 290-308.     *)

(* face_recognition.compare_faces(known_encodings, face_encoding,          *)
(* tolerance=0.5), line 293: per known encoding, distance <= tolerance.    *)
compare_faces(face_distances) ==
    [i \in DOMAIN face_distances |-> face_distances[i] <= Tolerance]

(* The first entry within tolerance taken instead of the nearest.          *)
argmin_first_match(face_distances) ==
    CHOOSE i \in DOMAIN face_distances :
        /\ (\E j \in DOMAIN face_distances : face_distances[j] <= Tolerance)
               => face_distances[i] <= Tolerance
        /\ \A j \in DOMAIN face_distances :
               (j < i /\ face_distances[i] <= Tolerance) => face_distances[j] > Tolerance

(* np.argmin(face_distances), line 300: the first index of the smallest.   *)
argmin(face_distances) ==
    CHOOSE i \in DOMAIN face_distances :
        /\ \A j \in DOMAIN face_distances : face_distances[i] <= face_distances[j]
        /\ \A j \in DOMAIN face_distances : j < i => face_distances[j] > face_distances[i]

(* confidence = (1 - face_distances[best_match_index]) * 100, line 304.    *)
FaceConfidence(distance) == ((One - distance) * 100) \div One

(* The confidence test with the boundary left out.                        *)
ConfidentEnough_strict(confidence) == confidence > MinConfidence

(* if confidence >= 60.0, line 305.                                        *)
ConfidentEnough(confidence) == confidence >= MinConfidence

(* self.known_names[best_match_index], line 306, raises IndexError: the    *)
(* nearest known encoding is within tolerance and confident enough, and    *)
(* known_names has no entry at its index.                                  *)
ClassifyRaises(names, face_distances) ==
    LET matches == compare_faces(face_distances)
    IN  /\ \E i \in DOMAIN matches : matches[i]
        /\ LET best_match_index == argmin(face_distances)
           IN  /\ matches[best_match_index]
               /\ ConfidentEnough(FaceConfidence(face_distances[best_match_index]))
               /\ best_match_index \notin DOMAIN names

(* name and confidence of one face, lines 293-308; face_distances[i] is    *)
(* the distance of the face to known encoding i.                           *)
Classify(names, face_distances) ==
    LET matches == compare_faces(face_distances)
    IN  IF \E i \in DOMAIN matches : matches[i]
        THEN LET best_match_index == argmin(face_distances)
             IN  IF matches[best_match_index]
                 THEN LET confidence == FaceConfidence(face_distances[best_match_index])
                      IN  [ name       |-> IF ConfidentEnough(confidence)
                                           THEN names[best_match_index] ELSE "Unknown",
                            confidence |-> confidence ]
                 ELSE [name |-> "Unknown", confidence |-> 0]
        ELSE [name |-> "Unknown", confidence |-> 0]

---------------------------------------------------------------------------
(* main.py: the motion decision of detect_faces_and_motion, lines 150-186. *)
(* diff_contours and motion_contours are the areas (cv2.contourArea) of    *)
(* the contours of the frame difference and of the background model.       *)

(* cv2.contourArea(contour) > self.min_motion_area, lines 166 and 180.     *)
ExceedsMinArea(area) == area > min_motion_area

(* The loop over diff_contours, lines 165-168.                             *)
RECURSIVE DiffLoop(_, _)
DiffLoop(diff_contours, i) ==
    IF i > Len(diff_contours) THEN FALSE
    ELSE IF ExceedsMinArea(diff_contours[i]) THEN TRUE
    ELSE DiffLoop(diff_contours, i + 1)

(* The loop adding the area of every contour, large or not.                *)
RECURSIVE BackgroundLoop_sum_all(_, _, _)
BackgroundLoop_sum_all(motion_contours, i, acc) ==
    IF i > Len(motion_contours) THEN acc
    ELSE LET area == motion_contours[i]
         IN  BackgroundLoop_sum_all(motion_contours, i + 1,
                 [total_motion_area |-> acc.total_motion_area + area,
                  motion_detected   |-> IF ExceedsMinArea(area) THEN TRUE
                                        ELSE acc.motion_detected])

(* The loop over motion_contours, lines 177-182: acc is                    *)
(* (total_motion_area, motion_detected) before contour i.                  *)
RECURSIVE BackgroundLoop(_, _, _)
BackgroundLoop(motion_contours, i, acc) ==
    IF i > Len(motion_contours) THEN acc
    ELSE LET area == motion_contours[i]
         IN  IF ExceedsMinArea(area)
             THEN BackgroundLoop(motion_contours, i + 1,
                      [total_motion_area |-> acc.total_motion_area + area, motion_detected |-> TRUE])
             ELSE BackgroundLoop(motion_contours, i + 1, acc)

(* motion_detected and total_motion_area at line 188.                      *)
MotionDecision(has_previous, diff_contours, motion_contours) ==
    LET by_difference == IF has_previous THEN DiffLoop(diff_contours, 1) ELSE FALSE
        after_loop    == BackgroundLoop(motion_contours, 1,
                             [total_motion_area |-> 0, motion_detected |-> by_difference])
    IN  [ motion_detected   |-> IF after_loop.total_motion_area > AggregateArea
                                THEN TRUE ELSE after_loop.motion_detected,
          total_motion_area |-> after_loop.total_motion_area ]

---------------------------------------------------------------------------
(* main.py: FaceMotionDetector.                                            *)

(* Python's None, as the value of a frame variable or of get_frame.        *)
NoFrame == [id |-> "None"]

(* What the camera and the image analysis deliver in one tick: the areas   *)
(* of the frame-difference contours and of the background-model contours, *)
(* and per face region its distances to the known encodings.               *)
Scenes ==
    { [id |-> "still",  diff |-> <<>>,    bg |-> <<>>,         faces |-> <<>>,
       motion_text |-> FALSE, labels |-> <<>>],
      [id |-> "moving", diff |-> <<250>>, bg |-> <<>>,         faces |-> <<>>,
       motion_text |-> FALSE, labels |-> <<>>],
      [id |-> "face",   diff |-> <<50>>,  bg |-> <<>>,         faces |-> << <<42, 70>> >>,
       motion_text |-> FALSE, labels |-> <<>>],
      [id |-> "both",   diff |-> <<>>,    bg |-> <<600, 600>>, faces |-> << <<70, 30>>, <<60, 55>> >>,
       motion_text |-> FALSE, labels |-> <<>>] }

(* What encodings.pickle holds, lines 263-266: data.get('encodings', [])   *)
(* and data.get('names', []), two lists that the file may give different   *)
(* lengths; no file, or a file that does not load, leaves both empty       *)
(* (lines 89-90).                                                          *)
Galleries ==
    { [encodings |-> <<>>,           names |-> <<>>],
      [encodings |-> <<"e0", "e1">>, names |-> <<"alice", "bob">>],
      [encodings |-> <<"e0", "e1">>, names |-> <<"alice">>],
      [encodings |-> <<>>,           names |-> <<"alice">>] }

NoLocals == [current_time |-> 0, region |-> 0]

(* recognize_faces without the test of lines 279-280.                      *)
face_recognition_enabled_unchecked == TRUE

(* self.face_recognition_enabled = len(self.known_encodings) > 0, line 267 *)
(* (False from line 91 when load_face_encodings found no file or raised).  *)
face_recognition_enabled == Len(known_encodings) > 0

(* face_recognition.face_distance(self.known_encodings, face_encoding),    *)
(* line 299: one distance per known encoding.                              *)
face_distance(region_distances) == SubSeq(region_distances, 1, Len(known_encodings))

(* The cooldown test with the boundary let in.                            *)
CooldownPassed_inclusive(current_time, last_time, cooldown) ==
    current_time - last_time >= cooldown

(* current_time - self.last_motion_time > self.motion_cooldown, line 195,  *)
(* and the same for faces, line 324.                                       *)
CooldownPassed(current_time, last_time, cooldown) ==
    current_time - last_time > cooldown

(* The emission test without the shared gate.                             *)
MayEmit_cooldown_only(cooldown_passed, firebase_ready) ==
    cooldown_passed

(* The emission test without the per-kind cooldown.                       *)
MayEmit_gate_only(cooldown_passed, firebase_ready) ==
    firebase_ready

(* if motion_cooldown_passed and firebase_ready, lines 200 and 329.        *)
MayEmit(cooldown_passed, firebase_ready) ==
    cooldown_passed /\ firebase_ready

(* The per-kind time stamped in every tick that has a detection.           *)
TimeIfNotAccepted_stamped(last_time, current_time) ==
    current_time

(* The per-kind time of a detection that is not accepted: the elif of      *)
(* lines 203-205 and 332-334 only prints, and there is no else; the        *)
(* assignments of lines 202 and 331 are inside the if of lines 200, 329.   *)
TimeIfNotAccepted(last_time, current_time) ==
    last_time

(* The expiry test with the boundary let in.                              *)
DisplayExpired_inclusive(current_time, timer) ==
    current_time - timer >= motion_display_duration

(* current_time - self.motion_timer > self.motion_display_duration, 206.   *)
DisplayExpired(current_time, timer) ==
    current_time - timer > motion_display_duration

(* The test of line 190 reading the display flag as well as the local.     *)
TickHasMotion_display(local_motion_detected, self_motion_detected) ==
    local_motion_detected \/ self_motion_detected

(* if motion_detected:, line 190: the local motion_detected of this tick,  *)
(* not self.motion_detected.                                               *)
TickHasMotion(local_motion_detected, self_motion_detected) ==
    local_motion_detected

(* self.previous_frame = frame.copy(), line 171: a copy of the frame as it *)
(* is before anything is drawn on it, made outside every condition.        *)
StorePrevious(previous, current, local_motion_detected) ==
    current

(* cv2.putText(frame, 'Motion', ...) if self.motion_detected, 210-212.     *)
DrawMotion(f, flag) == [f EXCEPT !.motion_text = flag]

(* The rectangle and label of one face, lines 310-320.                     *)
DrawLabel(f, c) ==
    [f EXCEPT !.labels = Append(@, IF c.name # "Unknown"
                                   THEN [name |-> c.name, confidence |-> c.confidence]
                                   ELSE [name |-> "Unknown", confidence |-> 0])]

(* cv2.imencode('.jpg', frame) and buffer.tobytes(), lines 388-389.        *)
imencode(f) == [jpeg |-> f]

(* An event the producer accepted: its kind, the current_time of its tick  *)
(* (lines 189, 323), which becomes the time of its kind, the time at       *)
(* which get_firebase_upload_status() found the upload gate open, and the  *)
(* number of save_* calls entered before it.                               *)
Accepted(kind, current_time) ==
    [kind |-> kind, time |-> current_time, at |-> clock, submitted |-> submitted]

(* The scenes in front of the camera in SpecStream: one without motion    *)
(* and faces, and one with both.                                           *)
StreamScenes == {scene \in Scenes : scene.id \in {"still", "both"}}

(* The scene in front of the camera in SpecStreamLive: the one with motion *)
(* and faces (the frame lock is taken and released in the same way         *)
(* whatever the frame).                                                    *)
LiveScenes == {scene \in Scenes : scene.id = "both"}

(* process_frames, lines 103-115: the next frame is captured, the camera   *)
(* seeing one of `scenes`.                                                 *)
CaptureOf(scenes) ==
    /\ pc = "capture"
    /\ camera_initialized
    /\ \E f \in scenes : frame' = f
    /\ pc' = "motion"
    /\ UNCHANGED <<clock, dbvars, lv, previous_frame, motion_detected, motion_timer,
                   last_motion_time, last_face_detection_time, known_names, known_encodings, accepted, tick_accepted,
                   camera_initialized, pause, raised,
                   slotvars, fnvars>>

Capture == CaptureOf(Scenes)

StreamCapture == CaptureOf(StreamScenes)

LiveCapture == CaptureOf(LiveScenes)

(* detect_faces_and_motion, lines 131-195: the motion decision, the        *)
(* previous frame, current_time = time.time() and, when the tick has       *)
(* motion, the display flag and timer; without motion, lines 206-214, to   *)
(* the end of the function.                                                *)
DetectMotion ==
    /\ pc = "motion"
    /\ LET decision     == MotionDecision(previous_frame # NoFrame, frame.diff, frame.bg)
           moving       == TickHasMotion(decision.motion_detected, motion_detected)
           current_time == clock
           display == IF moving THEN TRUE
                      ELSE IF DisplayExpired(current_time, motion_timer) THEN FALSE
                      ELSE motion_detected
       IN  /\ previous_frame' = StorePrevious(previous_frame, frame, moving)
           /\ motion_detected' = display
           /\ motion_timer' = IF moving THEN current_time ELSE motion_timer
           /\ IF moving
              THEN /\ pc' = "motion_gate"
                   /\ lv' = [current_time |-> current_time, region |-> 0]
                   /\ frame' = frame
              ELSE /\ pc' = "faces"
                   /\ lv' = NoLocals
                   /\ frame' = DrawMotion(frame, display)
    /\ UNCHANGED <<clock, dbvars, last_motion_time, last_face_detection_time,
                   known_names, known_encodings, accepted, tick_accepted,
                   camera_initialized, pause, raised, slotvars, fnvars>>

(* detect_faces_and_motion, lines 195-207, in a tick that has motion: the  *)
(* cooldown is tested on the current_time of line 189, and                 *)
(* get_firebase_upload_status() reads the clock again (database.py line    *)
(* 262); up to the call of capture_motion_photo, and without that call to  *)
(* the end of the function (lines 209-214).                                *)
MotionGate ==
    /\ pc = "motion_gate"
    /\ LET current_time == lv.current_time
           motion_cooldown_passed == CooldownPassed(current_time, last_motion_time, motion_cooldown)
           firebase_status == get_firebase_upload_status
           firebase_ready  == firebase_status.can_upload_now
       IN  IF MayEmit(motion_cooldown_passed, firebase_ready)
           THEN /\ pc' = "motion_capture"
                /\ lv' = lv
                /\ accepted' = Append(accepted, Accepted("motion", current_time))
                /\ tick_accepted' = Append(tick_accepted, Accepted("motion", current_time))
                /\ frame' = frame
                /\ last_motion_time' = last_motion_time
           ELSE /\ pc' = "faces"
                /\ lv' = NoLocals
                /\ accepted' = accepted
                /\ tick_accepted' = tick_accepted
                /\ frame' = DrawMotion(frame, motion_detected)
                /\ last_motion_time' = TimeIfNotAccepted(last_motion_time, current_time)
    /\ UNCHANGED <<clock, dbvars, previous_frame, motion_detected, motion_timer,
                   last_face_detection_time, known_names, known_encodings,
                   camera_initialized, pause, raised, slotvars, fnvars>>

(* The confidence without the upper clamp.                                 *)
MotionConfidence_unclamped(motion_area) ==
    LET linear == ((motion_area * 100) * 100) \div 1000
    IN  IF linear > 0 THEN linear ELSE 0

(* confidence = min(100, max(0, (motion_area / 1000) * 100)), line 232, in *)
(* hundredths of a percent.                                                *)
MotionConfidence(motion_area) ==
    LET linear  == ((motion_area * 100) * 100) \div 1000
        lower   == IF linear > 0 THEN linear ELSE 0
    IN  IF lower < 100 * 100 THEN lower ELSE 100 * 100

(* What capture_motion_photo hands to save_motion_detection for the frame  *)
(* of a tick whose cooldown and upload gate are open: nothing when the     *)
(* motion decision is false (line 190); else the motion_area and min_area  *)
(* of motion_data and the confidence, lines 201 and 231-249, the area      *)
(* being total_motion_area of line 188.  The code stores the decimal text  *)
(* of each number (str, lines 236 and 245); the numbers are kept here.     *)
MotionEvent(has_previous, diff_contours, motion_contours) ==
    LET decision == MotionDecision(has_previous, diff_contours, motion_contours)
        motion_area == decision.total_motion_area
    IN  IF decision.motion_detected
        THEN << [ motion_area |-> motion_area,
                  min_area    |-> min_motion_area,
                  confidence  |-> MotionConfidence(motion_area) ] >>
        ELSE <<>>

(* capture_motion_photo, lines 216-249: save_motion_detection is entered.  *)
MotionCapture ==
    /\ pc = "motion_capture"
    /\ SaveEnter(Producer, "motion")
    /\ pc' = "motion_saving"
    /\ UNCHANGED <<frame, lv, previous_frame, motion_detected, motion_timer,
                   last_motion_time, last_face_detection_time, known_names, known_encodings, accepted, tick_accepted,
                   camera_initialized, pause, raised,
                   slotvars, fnvars>>

(* The per-kind time set only when save_* returned a document.             *)
MotionRecord_on_success ==
    /\ pc = "motion_saving"
    /\ call[Producer].pc \in {"idle", "returned"}
    /\ call' = [call EXCEPT ![Producer] = IdleCall]
    /\ last_motion_time' = IF call[Producer].result.status = "doc"
                           THEN lv.current_time ELSE last_motion_time
    /\ frame' = DrawMotion(frame, motion_detected)
    /\ lv' = NoLocals
    /\ pc' = "faces"
    /\ UNCHANGED <<clock, dbrest, previous_frame, motion_detected, motion_timer,
                   last_face_detection_time, known_names, known_encodings, accepted, tick_accepted,
                   camera_initialized, pause, raised, slotvars, fnvars>>

(* save_* has returned: self.last_motion_time = current_time, line 202,    *)
(* and the end of detect_faces_and_motion, lines 209-214.                  *)
MotionRecord ==
    /\ pc = "motion_saving"
    /\ call[Producer].pc \in {"idle", "returned"}
    /\ call' = [call EXCEPT ![Producer] = IdleCall]
    /\ last_motion_time' = lv.current_time
    /\ frame' = DrawMotion(frame, motion_detected)
    /\ lv' = NoLocals
    /\ pc' = "faces"
    /\ UNCHANGED <<clock, dbrest, previous_frame, motion_detected, motion_timer,
                   last_face_detection_time, known_names, known_encodings, accepted, tick_accepted,
                   camera_initialized, pause, raised, slotvars, fnvars>>

(* recognize_faces, one pass of the loop, lines 290-323: the face is       *)
(* classified and labelled and current_time = time.time() is read;         *)
(* lv.region counts the regions done.  When line 306 raises, except        *)
(* Exception (lines 338-340) returns the frame as it is.                   *)
RecognizeFace ==
    /\ pc = "faces"
    /\ face_recognition_enabled
    /\ lv.region < Len(frame.faces)
    /\ LET face_distances == face_distance(frame.faces[lv.region + 1])
           current_time   == clock
       IN  IF ClassifyRaises(known_names, face_distances)
           THEN /\ pc' = "write"
                /\ lv' = NoLocals
                /\ raised' = "faces"
                /\ frame' = frame
           ELSE /\ pc' = "face_gate"
                /\ lv' = [current_time |-> current_time, region |-> lv.region + 1]
                /\ raised' = raised
                /\ frame' = DrawLabel(frame, Classify(known_names, face_distances))
    /\ UNCHANGED <<clock, dbvars, previous_frame, motion_detected, motion_timer,
                   last_motion_time, last_face_detection_time, known_names, known_encodings,
                   accepted, tick_accepted,
                   camera_initialized, pause, slotvars, fnvars>>

(* recognize_faces, lines 324-334, for the face just labelled: the         *)
(* cooldown is tested on the current_time of line 323, and                 *)
(* get_firebase_upload_status() reads the clock again (database.py line    *)
(* 262); up to the call of self.save_face_detection.                       *)
FaceGate ==
    /\ pc = "face_gate"
    /\ LET current_time == lv.current_time
           face_cooldown_passed == CooldownPassed(current_time, last_face_detection_time, face_detection_cooldown)
           firebase_status == get_firebase_upload_status
           firebase_ready  == firebase_status.can_upload_now
       IN  IF MayEmit(face_cooldown_passed, firebase_ready)
           THEN /\ pc' = "face_capture"
                /\ accepted' = Append(accepted, Accepted("face", current_time))
                /\ tick_accepted' = Append(tick_accepted, Accepted("face", current_time))
                /\ last_face_detection_time' = last_face_detection_time
           ELSE /\ pc' = "faces"
                /\ accepted' = accepted
                /\ tick_accepted' = tick_accepted
                /\ last_face_detection_time' =
                       TimeIfNotAccepted(last_face_detection_time, current_time)
    /\ UNCHANGED <<clock, dbvars, frame, lv, previous_frame, motion_detected, motion_timer,
                   last_motion_time, known_names, known_encodings,
                   camera_initialized, pause, raised, slotvars, fnvars>>

(* self.save_face_detection, lines 342-373: save_face_detection is entered *)
FaceCapture ==
    /\ pc = "face_capture"
    /\ SaveEnter(Producer, "face")
    /\ pc' = "face_saving"
    /\ UNCHANGED <<frame, lv, previous_frame, motion_detected, motion_timer,
                   last_motion_time, last_face_detection_time, known_names, known_encodings, accepted, tick_accepted,
                   camera_initialized, pause, raised,
                   slotvars, fnvars>>

(* The loop going on without the assignment of line 331.                   *)
FaceRecord_unstamped ==
    /\ pc = "face_saving"
    /\ call[Producer].pc \in {"idle", "returned"}
    /\ call' = [call EXCEPT ![Producer] = IdleCall]
    /\ last_face_detection_time' = last_face_detection_time
    /\ pc' = "faces"
    /\ UNCHANGED <<clock, dbrest, frame, lv, previous_frame, motion_detected, motion_timer,
                   last_motion_time, known_names, known_encodings, accepted, tick_accepted,
                   camera_initialized, pause, raised, slotvars, fnvars>>

(* save_* has returned: self.last_face_detection_time = current_time,      *)
(* line 331; the loop goes on.                                             *)
FaceRecord ==
    /\ pc = "face_saving"
    /\ call[Producer].pc \in {"idle", "returned"}
    /\ call' = [call EXCEPT ![Producer] = IdleCall]
    /\ last_face_detection_time' = lv.current_time
    /\ pc' = "faces"
    /\ UNCHANGED <<clock, dbrest, frame, lv, previous_frame, motion_detected, motion_timer,
                   last_motion_time, known_names, known_encodings, accepted, tick_accepted,
                   camera_initialized, pause, raised, slotvars, fnvars>>

(* recognize_faces returns the frame: at once when face recognition is     *)
(* disabled (lines 279-280), else after the last region (line 336).        *)
FacesDone ==
    /\ pc = "faces"
    /\ ~face_recognition_enabled \/ lv.region >= Len(frame.faces)
    /\ pc' = "write"
    /\ lv' = NoLocals
    /\ UNCHANGED <<clock, dbvars, frame, previous_frame, motion_detected, motion_timer,
                   last_motion_time, last_face_detection_time, known_names, known_encodings, accepted, tick_accepted,
                   camera_initialized, pause, raised,
                   slotvars, fnvars>>

(* The save_* call of the producer goes on: the statement its activation   *)
(* is at, on the immediate or on the deferred branch.                      *)
ProducerCall ==
    /\ pc \in {"motion_saving", "face_saving"}
    /\ call[Producer].pc \notin {"idle", "returned"}
    /\ CASE call[Producer].pc = "test"     -> SaveTest(Producer)
         [] call[Producer].pc = "upload"   -> SaveUpload(Producer)
         [] call[Producer].pc = "store"    -> SaveStore(Producer)
         [] call[Producer].pc = "delay"    -> SaveDelay(Producer)
         [] call[Producer].pc = "schedule" -> SaveSchedule(Producer)
    /\ UNCHANGED <<detvars, slotvars, fnvars>>

(* capture_motion_photo raises before it calls save_motion_detection       *)
(* (cv2.imwrite, cv2.imencode or b64encode, lines 218-229): except         *)
(* Exception, lines 256-257, prints, and the function returns to line 202. *)
MotionCaptureFails ==
    /\ pc = "motion_capture"
    /\ pc' = "motion_saving"
    /\ UNCHANGED <<clock, dbvars, frame, lv, previous_frame, motion_detected, motion_timer,
                   last_motion_time, last_face_detection_time, known_names, known_encodings, accepted, tick_accepted,
                   camera_initialized, pause, raised, slotvars, fnvars>>

(* self.save_face_detection raises before it calls save_face_detection     *)
(* (lines 344-355): except Exception, lines 380-381, prints, and the       *)
(* function returns to line 331.                                           *)
FaceCaptureFails ==
    /\ pc = "face_capture"
    /\ pc' = "face_saving"
    /\ UNCHANGED <<clock, dbvars, frame, lv, previous_frame, motion_detected, motion_timer,
                   last_motion_time, last_face_detection_time, known_names, known_encodings, accepted, tick_accepted,
                   camera_initialized, pause, raised, slotvars, fnvars>>

(* The pause with the sleep after an exception left out.                   *)
PauseAfter_none(cause) == IF cause = "camera" THEN 10 ELSE 0

(* time.sleep(1) when the camera is not initialized, line 108, and         *)
(* time.sleep(0.1) in the except clause of process_frames, line 129, in    *)
(* tenths of a second.                                                     *)
PauseAfter(cause) == IF cause = "camera" THEN 10 ELSE 1

(* except Exception of process_frames, lines 127-129: the tick is          *)
(* abandoned, its frame is not written, and the loop sleeps.               *)
HandleException(stage) ==
    /\ raised' = stage
    /\ pause' = PauseAfter(stage)
    /\ frame' = NoFrame
    /\ lv' = NoLocals
    /\ pc' = "sleep"
    /\ tick_accepted' = <<>>

(* process_frames, lines 106-109: the camera is not initialized.           *)
CameraMissing ==
    /\ pc = "capture"
    /\ ~camera_initialized
    /\ raised' = "camera"
    /\ pause' = PauseAfter("camera")
    /\ pc' = "sleep"
    /\ UNCHANGED <<clock, dbvars, frame, lv, previous_frame, motion_detected, motion_timer,
                   last_motion_time, last_face_detection_time, known_names, known_encodings, accepted, tick_accepted,
                   camera_initialized, slotvars, fnvars>>

(* process_frames, lines 112-115: capture_array or cvtColor raises.        *)
CaptureFails ==
    /\ pc = "capture"
    /\ camera_initialized
    /\ HandleException("capture")
    /\ UNCHANGED <<clock, dbvars, previous_frame, motion_detected, motion_timer,
                   last_motion_time, last_face_detection_time, known_names, known_encodings, accepted,
                   camera_initialized, slotvars, fnvars>>

(* detect_faces_and_motion raises, and nothing in it catches: in the image *)
(* analysis before self.previous_frame is assigned (lines 134-162, 171) or *)
(* in the contour analysis after it (lines 174-179).                       *)
MotionFails ==
    /\ pc = "motion"
    /\ \E point \in {"analysis", "contours"} :
          previous_frame' = IF point = "contours" THEN frame ELSE previous_frame
    /\ HandleException("motion")
    /\ UNCHANGED <<clock, dbvars, motion_detected, motion_timer,
                   last_motion_time, last_face_detection_time, known_names, known_encodings, accepted,
                   camera_initialized, slotvars, fnvars>>

(* cv2.putText raises at the end of detect_faces_and_motion, lines         *)
(* 210-212: all of lines 188-207 has been done, the event of the tick, if  *)
(* any, has been accepted and its save_* call has returned.                *)
DrawFails ==
    /\ \/ /\ pc = "motion_saving"
          /\ call[Producer].pc \in {"idle", "returned"}
          /\ call' = [call EXCEPT ![Producer] = IdleCall]
          /\ motion_detected
          /\ last_motion_time' = lv.current_time
          /\ UNCHANGED <<previous_frame, motion_detected, motion_timer, accepted>>
       \/ /\ pc = "motion_gate"
          /\ LET current_time == lv.current_time
                 motion_cooldown_passed == CooldownPassed(current_time, last_motion_time, motion_cooldown)
                 firebase_ready == get_firebase_upload_status.can_upload_now
             IN  /\ ~MayEmit(motion_cooldown_passed, firebase_ready)
                 /\ last_motion_time' = TimeIfNotAccepted(last_motion_time, current_time)
          /\ motion_detected
          /\ UNCHANGED <<call, previous_frame, motion_detected, motion_timer, accepted>>
       \/ /\ pc = "motion"
          /\ LET decision     == MotionDecision(previous_frame # NoFrame, frame.diff, frame.bg)
                 moving       == TickHasMotion(decision.motion_detected, motion_detected)
                 current_time == clock
                 display == IF DisplayExpired(current_time, motion_timer) THEN FALSE
                            ELSE motion_detected
             IN  /\ ~moving
                 /\ display
                 /\ previous_frame' = StorePrevious(previous_frame, frame, moving)
                 /\ motion_detected' = display
          /\ UNCHANGED <<call, motion_timer, last_motion_time, accepted>>
    /\ HandleException("motion")
    /\ UNCHANGED <<clock, dbrest, last_face_detection_time, known_names, known_encodings,
                   camera_initialized, slotvars, fnvars>>

(* recognize_faces raises inside its try, lines 282-334, while locating or *)
(* encoding the faces or at a face of the loop: except Exception returns   *)
(* the frame as it is, lines 338-340.                                      *)
FacesFail ==
    /\ pc = "faces"
    /\ face_recognition_enabled
    /\ lv.region = 0 \/ lv.region < Len(frame.faces)
    /\ raised' = "faces"
    /\ lv' = NoLocals
    /\ pc' = "write"
    /\ UNCHANGED <<clock, dbvars, frame, previous_frame, motion_detected, motion_timer,
                   last_motion_time, last_face_detection_time, known_names, known_encodings, accepted, tick_accepted,
                   camera_initialized, pause, slotvars, fnvars>>

(* time.sleep has returned and the loop goes to its next iteration, lines  *)
(* 103-109 and 129.  The clock counts whole seconds: a pause of less than  *)
(* a second leaves it as it is here, and the steps of the clock let it    *)
(* advance.                                                                *)
ResumeBy(until) ==
    /\ pc = "sleep"
    /\ clock + (pause \div 10) <= until
    /\ clock' = clock + (pause \div 10)
    /\ pause' = 0
    /\ raised' = "none"
    /\ pc' = "capture"
    /\ UNCHANGED <<dbvars, frame, lv, previous_frame, motion_detected, motion_timer,
                   last_motion_time, last_face_detection_time, known_names, known_encodings, accepted, tick_accepted,
                   camera_initialized, slotvars, fnvars>>

Resume == ResumeBy(BootTime + FaultHorizon)

(* The same in SpecApp.                                                    *)
AppResume == ResumeBy(BootTime + AppHorizon)

(* with self.frame_lock:, line 124, entered by the producer.               *)
WriteAcquire ==
    /\ pc = "write"
    /\ frame_lock = {}
    /\ frame_lock' = {Producer}
    /\ pc' = "writing"
    /\ UNCHANGED <<clock, dbvars, frame, lv, previous_frame, motion_detected, motion_timer,
                   last_motion_time, last_face_detection_time, known_names, known_encodings, accepted, tick_accepted,
                   camera_initialized, pause, raised,
                   current_frame, reader, written, fnvars>>

(* self.current_frame = processed_frame, line 125; the lock is released.   *)
WriteFrame ==
    /\ pc = "writing"
    /\ current_frame' = frame
    /\ written' = frame
    /\ frame_lock' = {}
    /\ frame' = NoFrame
    /\ raised' = "none"
    /\ pc' = "capture"
    /\ tick_accepted' = <<>>
    /\ UNCHANGED <<clock, dbvars, lv, previous_frame, motion_detected, motion_timer,
                   last_motion_time, last_face_detection_time, known_names, known_encodings, accepted,
                   camera_initialized, pause,
                   reader, fnvars>>

(* generate() of video_feed calls detector.get_frame(), line 402: stream   *)
(* consumer k comes to the with statement of line 385 and asks for the     *)
(* lock.                                                                   *)
GetFrameCall(k) ==
    /\ reader[k].pc = "idle"
    /\ reader' = [reader EXCEPT ![k] = [pc |-> "waiting", got |-> <<>>]]
    /\ UNCHANGED <<clock, dbvars, detvars, current_frame, frame_lock, written, fnvars>>

(* with self.frame_lock:, line 385: the lock is free and consumer k takes  *)
(* it.                                                                     *)
GetFrameAcquire(k) ==
    /\ reader[k].pc = "waiting"
    /\ frame_lock = {}
    /\ frame_lock' = {k}
    /\ reader' = [reader EXCEPT ![k] = [pc |-> "locked", got |-> <<>>]]
    /\ UNCHANGED <<clock, dbvars, detvars, current_frame, written, fnvars>>

(* get_frame reading the frame the producer is working on, not the slot.   *)
GetFrameReturn_unfinished(k) ==
    /\ reader[k].pc = "locked"
    /\ reader' = [reader EXCEPT ![k] =
                    [pc |-> "returned",
                     got |-> <<IF frame # NoFrame THEN imencode(frame) ELSE NoFrame>>]]
    /\ frame_lock' = {}
    /\ UNCHANGED <<clock, dbvars, detvars, current_frame, written, fnvars>>

(* get_frame, lines 386-390: the encoded frame or None is returned and the *)
(* lock released.                                                          *)
GetFrameReturn(k) ==
    /\ reader[k].pc = "locked"
    /\ reader' = [reader EXCEPT ![k] =
                    [pc |-> "returned",
                     got |-> <<IF current_frame # NoFrame THEN imencode(current_frame) ELSE NoFrame>>]]
    /\ frame_lock' = {}
    /\ UNCHANGED <<clock, dbvars, detvars, current_frame, written, fnvars>>

(* generate(), lines 403-406: the frame get_frame returned is sent, or     *)
(* nothing when it returned None, and the consumer sleeps until it calls   *)
(* get_frame again.                                                        *)
StreamYield(k) ==
    /\ reader[k].pc = "returned"
    /\ reader' = [reader EXCEPT ![k] = [pc |-> "idle", got |-> <<>>]]
    /\ UNCHANGED <<clock, dbvars, detvars, current_frame, frame_lock, written, fnvars>>

(* The with block left by an exception without the lock being released.    *)
GetFrameRaises_holding(k) ==
    /\ reader[k].pc = "locked"
    /\ current_frame # NoFrame
    /\ reader' = [reader EXCEPT ![k] = [pc |-> "raised", got |-> <<>>]]
    /\ frame_lock' = frame_lock
    /\ UNCHANGED <<clock, dbvars, detvars, current_frame, written, fnvars>>

(* get_frame, lines 385-389: cv2.imencode or tobytes raises inside the     *)
(* with block; the lock is released as the exception leaves the block, and *)
(* the exception ends the generator of the stream (lines 401-407).         *)
GetFrameRaises(k) ==
    /\ reader[k].pc = "locked"
    /\ current_frame # NoFrame
    /\ reader' = [reader EXCEPT ![k] = [pc |-> "raised", got |-> <<>>]]
    /\ frame_lock' = {}
    /\ UNCHANGED <<clock, dbvars, detvars, current_frame, written, fnvars>>

(* video_feed, lines 398-409: the stream is requested again and a new      *)
(* generator runs.                                                         *)
Reconnect(k) ==
    /\ reader[k].pc = "raised"
    /\ reader' = [reader EXCEPT ![k] = [pc |-> "idle", got |-> <<>>]]
    /\ UNCHANGED <<clock, dbvars, detvars, current_frame, frame_lock, written, fnvars>>

(* Time passes in the application: between two ticks, while the faces of   *)
(* a frame are located and encoded and each is compared, between the       *)
(* current_time of a stage and its call of get_firebase_upload_status,     *)
(* while the photo of an accepted event is written and encoded, and at     *)
(* every statement of a save_* call.  At the other places of a tick no     *)
(* step reads the clock before the tick comes to one of these, so that     *)
(* time passing there is time passing at the next of these.                *)
TickApp ==
    /\ \/ pc = "capture"
       \/ pc = "faces" /\ face_recognition_enabled
                       /\ (lv.region = 0 \/ lv.region < Len(frame.faces))
       \/ pc \in {"motion_gate", "face_gate"}
       \/ pc \in {"motion_capture", "face_capture"}
       \/ pc \in {"motion_saving", "face_saving"}
    /\ TickTo(AppInstants, AppHorizon)
    /\ UNCHANGED <<detvars, slotvars, fnvars>>

(* The same while the failures of the producer loop are followed.          *)
TickFault ==
    /\ \/ pc = "capture"
       \/ pc = "faces" /\ face_recognition_enabled
                       /\ (lv.region = 0 \/ lv.region < Len(frame.faces))
       \/ pc \in {"motion_gate", "face_gate"}
       \/ pc \in {"motion_capture", "face_capture"}
       \/ pc \in {"motion_saving", "face_saving"}
    /\ Tick(AppClockSteps, BootTime + FaultHorizon)
    /\ UNCHANGED <<detvars, slotvars, fnvars>>

(* A time read d seconds before the clock of the model, when the clock     *)
(* is held at BootTime: the program reads the stored times only in         *)
(* differences with time.time() or with a current_time, compared with 30 s *)
(* and 3 s; a current_time is at most RetryGateDelay old when it is        *)
(* compared, so that a time RetryPast or more in the past is past all of   *)
(* them, whatever it is compared with.                                     *)
Aged(t, d) ==
    LET oldest == BootTime - RetryPast
    IN  IF t - d > oldest THEN t - d ELSE oldest

(* Time passes in the application, without end: as TickApp, seen from the  *)
(* clock, so that every stored time moves d into the past.  The histories  *)
(* are those of the present instant.                                       *)
TickRetry ==
    /\ \/ pc = "capture"
       \/ pc = "faces" /\ face_recognition_enabled
                       /\ (lv.region = 0 \/ lv.region < Len(frame.faces))
       \/ pc \in {"motion_gate", "face_gate"}
       \/ pc \in {"motion_capture", "face_capture"}
       \/ pc \in {"motion_saving", "face_saving"}
    /\ \E d \in RetryClockSteps :
          /\ pc \in {"motion_gate", "motion_capture", "motion_saving",
                     "face_gate", "face_capture", "face_saving"}
                => clock - (lv.current_time - d) <= RetryGateDelay
          /\ \A c \in Callers :
                call[c].pc \notin {"idle", "returned"}
                   => clock - (call[c].current_time - d) <= RetryGateDelay
          /\ last_firebase_upload_time' = Aged(last_firebase_upload_time, d)
          /\ last_motion_time' = Aged(last_motion_time, d)
          /\ last_face_detection_time' = Aged(last_face_detection_time, d)
          /\ motion_timer' = Aged(motion_timer, d)
          /\ lv' = IF pc \in {"motion_gate", "motion_capture", "motion_saving",
                               "face_gate", "face_capture", "face_saving"}
                   THEN [lv EXCEPT !.current_time = Aged(@, d)]
                   ELSE lv
          /\ call' = [c \in Callers |->
                        IF call[c].pc \in {"idle", "returned"} THEN call[c]
                        ELSE [call[c] EXCEPT !.current_time = Aged(@, d)]]
    /\ accepted' = <<>>
    /\ tick_accepted' = <<>>
    /\ uploads' = <<>>
    /\ submitted' = 0
    /\ UNCHANGED <<clock, threads, pc, frame, previous_frame, motion_detected, known_names, known_encodings,
                   camera_initialized, pause, raised, slotvars, fnvars>>

---------------------------------------------------------------------------
(* Spec: database.py with save_* called from any thread.                   *)

InitDb ==
    /\ clock = BootTime
    /\ last_firebase_upload_time = 0
    /\ call = [c \in Callers |-> IdleCall]
    /\ threads = {}
    /\ uploads = <<>>
    /\ submitted = 0

InitDetector ==
    /\ pc = "capture"
    /\ frame = NoFrame
    /\ lv = NoLocals
    /\ previous_frame = NoFrame
    /\ motion_detected = FALSE
    /\ motion_timer = 0
    /\ last_motion_time = 0
    /\ last_face_detection_time = 0
    /\ pause = 0
    /\ raised = "none"
    /\ accepted = <<>>
    /\ tick_accepted = <<>>
    /\ current_frame = NoFrame
    /\ frame_lock = {}
    /\ reader = [k \in 1..NumReaders |-> [pc |-> "idle", got |-> <<>>]]
    /\ written = NoFrame

InitFn ==
    /\ input = <<>>
    /\ output = <<>>
    /\ status = NoStatus

Init ==
    /\ InitDb
    /\ InitDetector
    /\ known_names = <<>>
    /\ known_encodings = <<>>
    /\ camera_initialized = TRUE
    /\ InitFn

Others == <<detvars, slotvars, fnvars>>

save_motion_detection == (\E c \in ExternalCallers : SaveEnter(c, "motion")) /\ UNCHANGED Others
save_face_detection   == (\E c \in ExternalCallers : SaveEnter(c, "face")) /\ UNCHANGED Others
BranchTest            == (\E c \in ExternalCallers : SaveTest(c)) /\ UNCHANGED Others
ImmediateUpload       == (\E c \in ExternalCallers : SaveUpload(c)) /\ UNCHANGED Others
ImmediateStore        == (\E c \in ExternalCallers : SaveStore(c)) /\ UNCHANGED Others
ComputeDelay          == (\E c \in ExternalCallers : SaveDelay(c)) /\ UNCHANGED Others
ScheduleUpload        == (\E c \in ExternalCallers : SaveSchedule(c)) /\ UNCHANGED Others
ResultTaken           == (\E c \in ExternalCallers : SaveReturn(c)) /\ UNCHANGED Others
DeferredUpload        == (\E t \in threads : ThreadUpload(t)) /\ UNCHANGED Others
DeferredStore         == (\E t \in threads : ThreadStore(t)) /\ UNCHANGED Others
TimePasses            == TickTo(Instants, Horizon) /\ UNCHANGED Others

(* The caller of a save_* call that has returned takes the result before   *)
(* another thread is seen to take a step: taking it reads and writes       *)
(* nothing that another thread reads.                                      *)
NoneReturned == \A c \in ExternalCallers : call[c].pc # "returned"

Next ==
    \/ NoneReturned /\ save_motion_detection
    \/ NoneReturned /\ save_face_detection
    \/ NoneReturned /\ BranchTest
    \/ NoneReturned /\ ImmediateUpload
    \/ NoneReturned /\ ImmediateStore
    \/ NoneReturned /\ ComputeDelay
    \/ NoneReturned /\ ScheduleUpload
    \/ ResultTaken
    \/ NoneReturned /\ DeferredUpload
    \/ NoneReturned /\ DeferredStore
    \/ NoneReturned /\ TimePasses

Spec == Init /\ [][Next]_vars

---------------------------------------------------------------------------
(* SpecStatus: database.py as in Spec, with a thread that calls            *)
(* get_firebase_upload_status() in any state of the scheduler, the steps   *)
(* of the other threads falling between its reads of the clock and of the  *)
(* global; output is what the call returned, until the caller drops it.    *)

(* get_firebase_upload_status() entered, line 262: the clock is read.      *)
StatusClock ==
    /\ output = <<>>
    /\ status.pc = "idle"
    /\ status' = [NoStatus EXCEPT !.pc = "read", !.current_time = clock]
    /\ UNCHANGED <<clock, dbvars, detvars, slotvars, input, output>>

(* A read of the global that also stamps the time of the call as an       *)
(* upload.                                                                 *)
StatusRead_touch ==
    /\ status.pc = "read"
    /\ status' = StatusLocals(status.current_time, last_firebase_upload_time)
    /\ last_firebase_upload_time' = clock
    /\ UNCHANGED <<clock, call, threads, uploads, submitted, detvars, slotvars, input, output>>

(* Lines 263-264: the global is read, without a lock, and the locals are   *)
(* computed.                                                               *)
StatusRead ==
    /\ status.pc = "read"
    /\ status' = StatusLocals(status.current_time, last_firebase_upload_time)
    /\ UNCHANGED <<clock, dbvars, detvars, slotvars, input, output>>

(* Lines 266-272: the global is read again and the dict is returned.       *)
StatusReturn ==
    /\ status.pc = "return"
    /\ output' = <<StatusDict(status, last_firebase_upload_time)>>
    /\ status' = NoStatus
    /\ UNCHANGED <<clock, dbvars, detvars, slotvars, input>>

(* The caller drops the status it was given.                               *)
StatusDrop ==
    /\ output # <<>>
    /\ output' = <<>>
    /\ UNCHANGED <<clock, dbvars, detvars, slotvars, input, status>>

NextStatus ==
    \/ output = <<>> /\ NoneReturned /\ submitted < StatusEvents /\ save_motion_detection
    \/ output = <<>> /\ NoneReturned /\ submitted < StatusEvents /\ save_face_detection
    \/ output = <<>> /\ NoneReturned /\ BranchTest
    \/ output = <<>> /\ NoneReturned /\ ImmediateUpload
    \/ output = <<>> /\ NoneReturned /\ ImmediateStore
    \/ output = <<>> /\ NoneReturned /\ ComputeDelay
    \/ output = <<>> /\ NoneReturned /\ ScheduleUpload
    \/ ResultTaken
    \/ output = <<>> /\ NoneReturned /\ DeferredUpload
    \/ output = <<>> /\ NoneReturned /\ DeferredStore
    \/ output = <<>> /\ NoneReturned /\ TimePasses
    \/ NoneReturned /\ StatusClock
    \/ NoneReturned /\ StatusRead
    \/ NoneReturned /\ StatusReturn
    \/ StatusDrop

SpecStatus == Init /\ [][NextStatus]_vars

---------------------------------------------------------------------------
(* SpecApp: the application as composed in main.py.  The producer thread   *)
(* is the only caller of save_*.  Every stage of a tick may raise: the     *)
(* capture, the motion analysis and the drawing (caught by process_frames, *)
(* lines 127-129, which abandons the tick), the face analysis (caught in   *)
(* recognize_faces, lines 338-340) and the capture step of an accepted     *)
(* event before it calls save_* (caught at lines 256-257 and 380-381).     *)

InitApp ==
    /\ InitDb
    /\ InitDetector
    /\ \E gallery \in Galleries :
          /\ known_names = gallery.names
          /\ known_encodings = gallery.encodings
    /\ camera_initialized = TRUE
    /\ InitFn

NextApp ==
    \/ Capture
    \/ DetectMotion
    \/ MotionGate
    \/ MotionCapture
    \/ MotionCaptureFails
    \/ MotionRecord
    \/ RecognizeFace
    \/ FaceGate
    \/ FaceCapture
    \/ FaceCaptureFails
    \/ FaceRecord
    \/ FacesDone
    \/ ProducerCall
    \/ CaptureFails
    \/ MotionFails
    \/ DrawFails
    \/ FacesFail
    \/ AppResume
    \/ WriteAcquire
    \/ WriteFrame
    \/ TickApp

SpecApp == InitApp /\ [][NextApp]_vars

(* SpecAppLive: the same, the producer thread never stopping: it is a      *)
(* thread of the process, started in __init__ (lines 96-99), whose loop    *)
(* has no exit.                                                            *)
SpecAppLive == InitApp /\ [][NextApp]_vars /\ WF_vars(NextApp)

(* SpecRetry: the application as in SpecApp, for as long as it runs: the   *)
(* producer thread never stops (its loop has no exit) and time never       *)
(* stops passing.                                                          *)
ProducerStep ==
    \/ Capture
    \/ DetectMotion
    \/ MotionGate
    \/ MotionCapture
    \/ MotionRecord
    \/ RecognizeFace
    \/ FaceGate
    \/ FaceCapture
    \/ FaceRecord
    \/ FacesDone
    \/ ProducerCall
    \/ WriteAcquire
    \/ WriteFrame

NextRetry ==
    \/ ProducerStep
    \/ TickRetry

SpecRetry ==
    /\ InitApp
    /\ [][NextRetry]_vars
    /\ WF_vars(ProducerStep)
    /\ SF_vars(TickRetry)

---------------------------------------------------------------------------
(* SpecTick: the application as in SpecApp, with the capture step of an    *)
(* accepted event raising or not: every tick runs to its end and writes    *)
(* its frame, and a tick may last as long as the clock allows.             *)

(* Time passes as in TickApp, in steps of half the upload delay and of     *)
(* all of it.                                                              *)
TickSlow ==
    /\ \/ pc = "capture"
       \/ pc = "faces" /\ face_recognition_enabled
                       /\ (lv.region = 0 \/ lv.region < Len(frame.faces))
       \/ pc \in {"motion_gate", "face_gate"}
       \/ pc \in {"motion_capture", "face_capture"}
       \/ pc \in {"motion_saving", "face_saving"}
    /\ Tick(RetryClockSteps, BootTime + TickHorizon)
    /\ UNCHANGED <<detvars, slotvars, fnvars>>

NextTick ==
    \/ Capture
    \/ DetectMotion
    \/ MotionGate
    \/ MotionCapture
    \/ MotionCaptureFails
    \/ MotionRecord
    \/ RecognizeFace
    \/ FaceGate
    \/ FaceCapture
    \/ FaceCaptureFails
    \/ FaceRecord
    \/ FacesDone
    \/ ProducerCall
    \/ WriteAcquire
    \/ WriteFrame
    \/ TickSlow

SpecTick == InitApp /\ [][NextTick]_vars

---------------------------------------------------------------------------
(* SpecFault: the producer loop with its failures: the camera may not be   *)
(* initialized, and the capture, the motion analysis and the face          *)
(* analysis of a tick may raise.                                           *)

InitFault ==
    /\ InitDb
    /\ InitDetector
    /\ \E gallery \in Galleries :
          /\ known_names = gallery.names
          /\ known_encodings = gallery.encodings
    /\ camera_initialized \in BOOLEAN
    /\ InitFn

NextFault ==
    \/ Capture
    \/ DetectMotion
    \/ MotionGate
    \/ MotionCapture
    \/ MotionRecord
    \/ RecognizeFace
    \/ FaceGate
    \/ FaceCapture
    \/ FaceRecord
    \/ FacesDone
    \/ ProducerCall
    \/ CameraMissing
    \/ CaptureFails
    \/ MotionFails
    \/ MotionCaptureFails
    \/ FaceCaptureFails
    \/ DrawFails
    \/ FacesFail
    \/ Resume
    \/ WriteAcquire
    \/ WriteFrame
    \/ TickFault

SpecFault == InitFault /\ [][NextFault]_vars

---------------------------------------------------------------------------
(* SpecStream: the producer loop, with its failures, and the stream        *)
(* consumers on the frame slot, in every interleaving of their steps, at   *)
(* one reading of the clock (neither the slot nor get_frame reads the      *)
(* time), the camera seeing the scenes of StreamScenes.                    *)

StreamRequest == \E k \in 1..NumReaders : GetFrameCall(k)
GetFrame      == \E k \in 1..NumReaders : GetFrameAcquire(k)
GetFrameDone  == \E k \in 1..NumReaders : GetFrameReturn(k)
GetFrameError == \E k \in 1..NumReaders : GetFrameRaises(k)
StreamSend    == \E k \in 1..NumReaders : StreamYield(k)
VideoFeed     == \E k \in 1..NumReaders : Reconnect(k)

(* The steps of the producer after the capture of a frame.                 *)
StreamProducer ==
    \/ DetectMotion
    \/ MotionGate
    \/ MotionCapture
    \/ MotionCaptureFails
    \/ MotionRecord
    \/ RecognizeFace
    \/ FaceGate
    \/ FaceCapture
    \/ FaceCaptureFails
    \/ FaceRecord
    \/ FacesDone
    \/ ProducerCall
    \/ CameraMissing
    \/ CaptureFails
    \/ MotionFails
    \/ DrawFails
    \/ FacesFail
    \/ Resume
    \/ WriteAcquire
    \/ WriteFrame

(* The steps of the stream consumers.  A consumer whose get_frame call has *)
(* returned holds no lock (line 404): every other thread goes on while it  *)
(* sends what it was given, which may by then be older than the slot.      *)
StreamConsumer ==
    \/ StreamRequest
    \/ GetFrame
    \/ GetFrameDone
    \/ GetFrameError
    \/ StreamSend
    \/ VideoFeed

NextStream ==
    \/ StreamCapture
    \/ StreamProducer
    \/ StreamConsumer

NextStreamLive ==
    \/ LiveCapture
    \/ StreamProducer
    \/ StreamConsumer

(* SpecStream starts as SpecFault does: with any gallery, none included,   *)
(* and with or without a camera.                                           *)
InitStream == InitFault

SpecStream == InitStream /\ [][NextStream]_vars

(* SpecStreamLive: the same with the camera seeing the scene of            *)
(* LiveScenes, every thread going on with the step it is at                *)
(* while that step stays possible: the thread that holds the frame lock    *)
(* leaves its section (what it does under the lock is an assignment or an  *)
(* encoding, lines 125 and 386-389, and waits for nothing), a thread that  *)
(* asks for the lock takes it if the lock stays free, and a consumer sends *)
(* the frame it was given.  Nothing is assumed of the order in which       *)
(* threading.Lock serves the threads that wait for it.                     *)
SpecStreamLive ==
    /\ InitStream
    /\ [][NextStreamLive]_vars
    /\ WF_vars(WriteAcquire)
    /\ WF_vars(WriteFrame)
    /\ \A k \in 1..NumReaders : WF_vars(GetFrameAcquire(k))
    /\ WF_vars(GetFrameDone \/ GetFrameError)
    /\ WF_vars(StreamSend)

---------------------------------------------------------------------------
(* SpecFace and SpecMotion: the two decisions applied to any input.        *)

DistanceValues == {30, 40, 41, 42, 50, 51}
NameValues     == {"alice", "bob"}
AreaValues     == {0, 50, 200, 201, 600, 1200}

SeqsUpTo(S, n) == UNION {[1..m -> S] : m \in 0..n}

InitFace ==
    /\ InitDb
    /\ InitDetector
    /\ known_names = <<>>
    /\ known_encodings = <<>>
    /\ camera_initialized = TRUE
    /\ output = <<>>
    /\ status = NoStatus
    /\ \E n \in 1..MaxGallery :
          input \in [names : [1..n -> NameValues], face_distances : [1..n -> DistanceValues]]

ClassifyFace ==
    /\ output = <<>>
    /\ output' = <<Classify(input.names, input.face_distances)>>
    /\ UNCHANGED <<clock, dbvars, detvars, slotvars, input, status>>

SpecFace == InitFace /\ [][ClassifyFace]_vars

InitMotion ==
    /\ InitDb
    /\ InitDetector
    /\ known_names = <<>>
    /\ known_encodings = <<>>
    /\ camera_initialized = TRUE
    /\ output = <<>>
    /\ status = NoStatus
    /\ input \in [has_previous : BOOLEAN,
                  diff_contours : SeqsUpTo(AreaValues, MaxContours),
                  motion_contours : SeqsUpTo(AreaValues, MaxContours)]

DecideMotion ==
    /\ output = <<>>
    /\ output' = <<MotionDecision(input.has_previous, input.diff_contours, input.motion_contours)>>
    /\ UNCHANGED <<clock, dbvars, detvars, slotvars, input, status>>

(* SpecSmallMotion: the motion decision applied to background-model        *)
(* contours none of which is above min_motion_area, as many as it takes     *)
(* for their areas to sum to more than the aggregate threshold.            *)
SmallAreaValues == {100, 200}

InitSmallMotion ==
    /\ InitDb
    /\ InitDetector
    /\ known_names = <<>>
    /\ known_encodings = <<>>
    /\ camera_initialized = TRUE
    /\ output = <<>>
    /\ status = NoStatus
    /\ input \in [has_previous : BOOLEAN,
                  diff_contours : {<<>>, <<50>>},
                  motion_contours : SeqsUpTo(SmallAreaValues, MaxSmallContours)]

SpecSmallMotion == InitSmallMotion /\ [][DecideMotion]_vars

(* SpecConfidence: the confidence of a motion event applied to any area    *)
(* capture_motion_photo can be given (total_motion_area, a sum of contour  *)
(* areas, never negative).                                                 *)
InitConfidence ==
    /\ InitDb
    /\ InitDetector
    /\ known_names = <<>>
    /\ known_encodings = <<>>
    /\ camera_initialized = TRUE
    /\ output = <<>>
    /\ status = NoStatus
    /\ input \in [motion_area : 0..MaxArea]

ConfidenceOfArea ==
    /\ output = <<>>
    /\ output' = <<MotionConfidence(input.motion_area)>>
    /\ UNCHANGED <<clock, dbvars, detvars, slotvars, input, status>>

SpecConfidence == InitConfidence /\ [][ConfidenceOfArea]_vars

(* SpecMotionEvent: the motion event of a tick, for any contours the two   *)
(* methods can deliver.                                                    *)
ProposeMotionEvent ==
    /\ output = <<>>
    /\ output' = <<MotionEvent(input.has_previous, input.diff_contours, input.motion_contours)>>
    /\ UNCHANGED <<clock, dbvars, detvars, slotvars, input, status>>

SpecMotionEvent == InitMotion /\ [][ProposeMotionEvent]_vars

---------------------------------------------------------------------------
(* The claims.                                                             *)

Gap(log, i, j) == log[j].time - log[i].time

RECURSIVE SumSeq(_)
SumSeq(xs) == IF xs = <<>> THEN 0 ELSE Head(xs) + SumSeq(Tail(xs))

IsLarge(area) == area > min_motion_area

(* C1 (Spec): any two persistence calls that are performed, of either     *)
(* kind, immediate or deferred, are at least FIREBASE_UPLOAD_DELAY apart.  *)
C1_GlobalRateLimit ==
    \A i, j \in 1..Len(uploads) :
        i < j => Gap(uploads, i, j) >= FIREBASE_UPLOAD_DELAY

(* C2 (SpecApp): the producer enters save_* for a kind only in a tick in   *)
(* which the time between that kind's last accepted emission and the       *)
(* current_time of the tick was more than its cooldown (30 s exactly is    *)
(* not enough) and get_firebase_upload_status(), called after current_time *)
(* was read, reported can_upload_now; the event entering save_* is the one *)
(* the tick accepted.                                                      *)
C2_BothGates ==
    [][ /\ submitted' # submitted =>
             LET kind  == call'[Producer].kind
                 event == accepted[Len(accepted)]
             IN  /\ event.kind = kind
                 /\ event.time = lv.current_time
                 /\ tick_accepted # <<>> /\ tick_accepted[Len(tick_accepted)] = event
                 /\ kind = "motion" => event.time - last_motion_time > motion_cooldown
                 /\ kind = "face" => event.time - last_face_detection_time > face_detection_cooldown
                 /\ event.at >= event.time
                 /\ event.at - last_firebase_upload_time >= FIREBASE_UPLOAD_DELAY
        /\ accepted' # accepted =>
             /\ pc \in {"motion_gate", "face_gate"}
             /\ clock - last_firebase_upload_time >= FIREBASE_UPLOAD_DELAY
             /\ pc = "motion_gate" => lv.current_time - last_motion_time > motion_cooldown
             /\ pc = "face_gate"
                   => lv.current_time - last_face_detection_time > face_detection_cooldown
             /\ accepted' = Append(accepted, [kind |-> IF pc = "motion_gate" THEN "motion" ELSE "face",
                                              time |-> lv.current_time,
                                              at   |-> clock, submitted |-> submitted]) ]_vars

C2_Witness ==
    /\ pc \in {"motion_saving", "face_saving"}
    /\ call[Producer].pc = "upload"
    /\ last_firebase_upload_time > 0
    /\ accepted[Len(accepted)].at > accepted[Len(accepted)].time

(* C3 (SpecApp): two events of the same kind that the producer accepted    *)
(* have current_times more than that kind's cooldown apart.                *)
C3_PerKindCooldown ==
    \A i, j \in 1..Len(accepted) :
        i < j /\ accepted[i].kind = accepted[j].kind =>
            Gap(accepted, i, j) > (IF accepted[i].kind = "motion"
                                   THEN motion_cooldown ELSE face_detection_cooldown)

C3_Witness ==
    \E i, j \in 1..Len(accepted) : i < j /\ accepted[i].kind = accepted[j].kind

(* C4, as claimed (SpecApp): any two events the producer accepted, of the   *)
(* same kind or not, passed the upload gate at times at least              *)
(* FIREBASE_UPLOAD_DELAY apart, whatever the time each save_* call and its *)
(* persistence call take.                                                  *)
C4_SharedGateDominates ==
    \A i, j \in 1..Len(accepted) :
        i < j => accepted[j].at - accepted[i].at >= FIREBASE_UPLOAD_DELAY

(* C4, amended (SpecApp): the shared gate is closed by save_* and by       *)
(* nothing else: two events the producer accepted with a save_* call       *)
(* entered between the two acceptances passed the upload gate at times at  *)
(* least FIREBASE_UPLOAD_DELAY apart, whatever the time the save_* call    *)
(* and its persistence call take.  (An event whose capture step raises     *)
(* before save_* is entered leaves the gate open, and the next event can   *)
(* be accepted at once: the witness.)                                      *)
C4_SharedGateWhenSubmitted ==
    \A i, j \in 1..Len(accepted) :
        (i < j /\ accepted[j].submitted > accepted[i].submitted)
            => accepted[j].at - accepted[i].at >= FIREBASE_UPLOAD_DELAY

C4_Witness ==
    /\ \E i, j \in 1..Len(accepted) :
          /\ i < j
          /\ accepted[i].kind # accepted[j].kind
          /\ accepted[j].submitted > accepted[i].submitted
          /\ accepted[j].at - accepted[i].at = FIREBASE_UPLOAD_DELAY
    /\ \E i, j \in 1..Len(accepted) :
          /\ i < j
          /\ accepted[i].kind # accepted[j].kind
          /\ accepted[j].submitted = accepted[i].submitted
          /\ accepted[j].at - accepted[i].at < FIREBASE_UPLOAD_DELAY
    /\ \E u \in 1..Len(uploads), j \in 1..Len(accepted) :
          /\ accepted[j].at > uploads[u].time
          /\ accepted[j].at - uploads[u].time < FIREBASE_UPLOAD_DELAY

(* C5 (Spec): a save_* call whose branch test finds current_time -         *)
(* last_firebase_upload_time >= FIREBASE_UPLOAD_DELAY, current_time being  *)
(* the clock read at submission, makes the persistence call in the caller, *)
(* starts no thread, and sets last_firebase_upload_time to current_time.   *)
C5_ImmediateAcceptance ==
    [][ \A c \in Callers :
          /\ (call[c].pc = "idle" /\ call'[c].pc # "idle")
             => /\ call'[c].pc = "test"
                /\ call'[c].current_time = clock
                /\ uploads' = uploads
                /\ threads' = threads
          /\ ( /\ call[c].pc = "test"
               /\ call'[c] # call[c]
               /\ call[c].current_time - last_firebase_upload_time >= FIREBASE_UPLOAD_DELAY )
             => /\ call'[c] = [call[c] EXCEPT !.pc = "upload"]
                /\ uploads' = uploads
                /\ threads' = threads
          /\ (call[c].pc = "upload" /\ call'[c] # call[c])
             => /\ call'[c] = [call[c] EXCEPT !.pc = "store"]
                /\ uploads' = Append(uploads, [ev |-> call[c].ev, kind |-> call[c].kind,
                                               time |-> clock, via |-> "immediate"])
                /\ clock >= call[c].current_time
                /\ threads' = threads
          /\ (call[c].pc = "store" /\ call'[c] # call[c])
             => /\ call'[c].pc = "returned"
                /\ call'[c].result.status \in {"doc", "none"}
                /\ last_firebase_upload_time' = call[c].current_time
                /\ uploads' = uploads
                /\ threads' = threads ]_vars

C5_Witness ==
    \E c \in Callers :
        /\ call[c].pc = "store"
        /\ last_firebase_upload_time > 0
        /\ call[c].current_time - last_firebase_upload_time = FIREBASE_UPLOAD_DELAY
        /\ uploads[Len(uploads)].via = "immediate"
        /\ uploads[Len(uploads)].ev = call[c].ev
        /\ uploads[Len(uploads)].time > call[c].current_time

(* C6 (Spec): a save_* call whose branch test finds the elapsed time less  *)
(* than FIREBASE_UPLOAD_DELAY makes no persistence call in the caller and  *)
(* returns "scheduled" with delay FIREBASE_UPLOAD_DELAY - elapsed, where   *)
(* elapsed is taken from last_firebase_upload_time as read for the delay;  *)
(* the thread it starts sleeps that delay, and the deferred persistence    *)
(* call is never made before that value of last_firebase_upload_time +     *)
(* FIREBASE_UPLOAD_DELAY.                                                  *)
C6_DeferredSubmission ==
    [][ /\ \A c \in Callers :
             /\ ( /\ call[c].pc = "test"
                  /\ call'[c] # call[c]
                  /\ call[c].current_time - last_firebase_upload_time < FIREBASE_UPLOAD_DELAY )
                => /\ call'[c] = [call[c] EXCEPT !.pc = "delay"]
                   /\ uploads' = uploads
                   /\ threads' = threads
             /\ (call[c].pc = "delay" /\ call'[c] # call[c])
                => /\ call'[c] =
                        [call[c] EXCEPT !.pc = "schedule",
                                        !.remaining_delay =
                                            FIREBASE_UPLOAD_DELAY
                                              - (call[c].current_time - last_firebase_upload_time)]
                   /\ uploads' = uploads
                   /\ threads' = threads
             /\ (call[c].pc = "schedule" /\ call'[c] # call[c])
                => /\ call'[c].pc = "returned"
                   /\ call'[c].result =
                        [ status |-> "scheduled",
                          delay_seconds |-> call[c].remaining_delay ]
                   /\ uploads' = uploads
                   /\ \A t \in threads' \ threads :
                         /\ t.ev = call[c].ev
                         /\ t.pc = "sleep"
                         /\ t.wake = clock + call[c].remaining_delay
                         /\ t.snapshot + FIREBASE_UPLOAD_DELAY
                               = call[c].current_time + call[c].remaining_delay
        /\ \A t \in threads :
             (t.pc = "sleep" /\ t \notin threads')
                => /\ uploads' = Append(uploads, [ev |-> t.ev, kind |-> t.kind,
                                                  time |-> clock, via |-> "deferred"])
                   /\ clock >= t.snapshot + FIREBASE_UPLOAD_DELAY ]_vars

C6_Witness ==
    /\ \E c \in Callers :
          /\ call[c].pc = "returned"
          /\ call[c].result = [status |-> "scheduled", delay_seconds |-> 25]
          /\ \E t \in threads : t.pc = "sleep" /\ t.wake = clock + 25 /\ t.snapshot = clock - 5
    /\ \E i \in 1..Len(uploads) : uploads[i].via = "deferred"

(* C7 (SpecApp): a detection whose per-kind cooldown has elapsed while     *)
(* get_firebase_upload_status() finds the shared gate closed leaves last_motion_time or                        *)
(* last_face_detection_time and last_firebase_upload_time as they were and *)
(* makes no persistence call; the per-kind timestamps change only when an  *)
(* event of the kind was accepted.  (The tick goes on to its face stage,   *)
(* or to the except clause of process_frames when the drawing raises.)     *)
C7_BlockedDetectionKeepsTimers ==
    [][ LET gate_closed == clock - last_firebase_upload_time < FIREBASE_UPLOAD_DELAY
            quiet == /\ last_motion_time' = last_motion_time
                     /\ last_face_detection_time' = last_face_detection_time
                     /\ last_firebase_upload_time' = last_firebase_upload_time
                     /\ uploads' = uploads
                     /\ submitted' = submitted
                     /\ threads' = threads
                     /\ accepted' = accepted
                     /\ pc' \in {"faces", "sleep"}
        IN  /\ ( /\ pc = "motion_gate" /\ pc' # pc
                 /\ lv.current_time - last_motion_time > motion_cooldown
                 /\ gate_closed ) => quiet
            /\ ( /\ pc = "face_gate" /\ pc' # pc
                 /\ lv.current_time - last_face_detection_time > face_detection_cooldown
                 /\ gate_closed ) => quiet
            /\ last_motion_time' # last_motion_time
                 => \E i \in 1..Len(accepted) :
                       /\ accepted[i].kind = "motion"
                       /\ accepted[i].time = last_motion_time'
            /\ last_face_detection_time' # last_face_detection_time
                 => \E i \in 1..Len(accepted) :
                       /\ accepted[i].kind = "face"
                       /\ accepted[i].time = last_face_detection_time' ]_vars

C7_Witness ==
    /\ pc = "faces"
    /\ lv = NoLocals
    /\ motion_timer = clock
    /\ clock - last_motion_time > motion_cooldown
    /\ clock - last_firebase_upload_time < FIREBASE_UPLOAD_DELAY
    /\ uploads # <<>>

(* C8 (SpecStream): get_frame returns None while no frame has been         *)
(* written, and else the encoding of the frame of the last completed       *)
(* write, in every interleaving of the producer and the consumers; the     *)
(* slot changes only when the producer completes a write, and then holds   *)
(* the frame of the tick.  (What a consumer holds after get_frame has      *)
(* returned is the slot as it was at its read: in the witness one consumer *)
(* holds the frame of the write before the last, the other the frame of    *)
(* the last.)                                                              *)
C8_FrameSlot ==
    [][ /\ \A k \in 1..NumReaders :
              (reader[k].pc = "locked" /\ reader'[k].pc = "returned")
                 => reader'[k].got = << IF written = NoFrame
                                        THEN NoFrame ELSE [jpeg |-> written] >>
        /\ (written = NoFrame) <=> (current_frame = NoFrame)
        /\ (current_frame' # current_frame \/ written' # written)
              => /\ pc = "writing" /\ pc' = "capture"
                 /\ current_frame' = frame
                 /\ written' = frame ]_vars

C8_Witness ==
    \E k, j \in 1..NumReaders :
        /\ k # j
        /\ written # NoFrame
        /\ reader[k].pc = "returned"
        /\ reader[k].got # <<NoFrame>>
        /\ reader[k].got # <<[jpeg |-> written]>>
        /\ reader[j].pc = "returned"
        /\ reader[j].got = <<[jpeg |-> written]>>
        /\ pc = "write"
        /\ frame # written

(* C9 (SpecFace): for a non-empty gallery the identity is the name of a    *)
(* matching entry of least distance if some entry is within tolerance 0.5  *)
(* and (1 - distance) * 100 of that entry is at least 60.0; in every other *)
(* case it is "Unknown".                                                   *)
C9_FaceClassification ==
    output # <<>> =>
        LET d == input.face_distances
            matching == {i \in DOMAIN d : d[i] <= Tolerance}
            nearest  == {i \in matching : \A j \in matching : d[i] <= d[j]}
        IN  IF matching # {} /\ (\E i \in nearest : (One - d[i]) * 100 >= MinConfidence * One)
            THEN \E i \in nearest : output[1].name = input.names[i]
            ELSE output[1].name = "Unknown"

C9_Witness ==
    /\ output # <<>>
    /\ Len(input.face_distances) >= 2
    /\ \E i \in DOMAIN input.face_distances :
          /\ input.face_distances[i] = One - MinConfidence
          /\ \A j \in DOMAIN input.face_distances : input.face_distances[j] >= input.face_distances[i]
          /\ output[1] = [name |-> input.names[i], confidence |-> MinConfidence]

(* C10, as claimed (SpecSmallMotion): motion is true exactly when a        *)
(* previous frame exists and some frame-difference contour has area >      *)
(* min_motion_area, or some background-model contour has area >            *)
(* min_motion_area, or the areas of the background-model contours sum to   *)
(* more than 1000.                                                         *)
C10_MotionDecision ==
    output # <<>> =>
        ( output[1].motion_detected
          <=> \/ /\ input.has_previous
                 /\ \E i \in DOMAIN input.diff_contours : input.diff_contours[i] > min_motion_area
              \/ \E i \in DOMAIN input.motion_contours : input.motion_contours[i] > min_motion_area
              \/ SumSeq(input.motion_contours) > AggregateArea )

(* C11 (SpecSmallMotion): when the areas of the background-model contours  *)
(* sum to more than 1000, motion is flagged, also when every one of them   *)
(* is at or below min_motion_area and no frame-difference contour is above *)
(* min_motion_area.                                                        *)
C11_AggregateRuleAlone ==
    ( /\ output # <<>>
      /\ SumSeq(input.motion_contours) > AggregateArea )
        => output[1].motion_detected

(* C12 (Spec): every save_* call entered leads to at most one persistence  *)
(* call, made for an event that was submitted; when the persistence call   *)
(* of the immediate branch has failed, save_* returns None having made no  *)
(* further persistence call and started no thread, and no later step makes *)
(* a persistence call for that event.                                      *)
C12_AtMostOnce ==
    [][ /\ \A i, j \in 1..Len(uploads') :
              i < j => uploads'[i].ev # uploads'[j].ev
        /\ \A i \in 1..Len(uploads') : uploads'[i].ev \in 1..submitted'
        /\ \A c \in Callers :
              ( /\ call[c].pc = "store"
                /\ call'[c].pc = "returned"
                /\ call'[c].result.status = "none" )
                 => /\ uploads' = uploads
                    /\ threads' = threads
                    /\ \E i \in 1..Len(uploads) : uploads[i].ev = call[c].ev ]_vars

C12_Witness ==
    /\ \A c \in ExternalCallers :
          /\ call[c].pc = "returned"
          /\ call[c].result.status = "none"
    /\ submitted = 1
    /\ Len(uploads) = 1
    /\ threads = {}
    /\ clock >= uploads[1].time + FIREBASE_UPLOAD_DELAY

(* C13, as claimed (SpecFault): whenever the camera is not initialized or   *)
(* the capture, the motion analysis or the face analysis of a tick raises, *)
(* the loop skips the tick (its frame is not written), sleeps 1 s or 0.1 s *)
(* and then goes to the next acquisition.                                  *)
C13_EveryErrorSkipsAndPauses ==
    [][ /\ (raised = "none" /\ raised' # "none")
             => /\ pc' = "sleep"
                /\ pause' = (IF raised' = "camera" THEN 10 ELSE 1)
                /\ current_frame' = current_frame
        /\ (pc = "sleep" /\ pc' # "sleep") => (pc' = "capture" /\ pause >= 1) ]_vars

(* C13, amended (SpecFault): the producer loop never leaves its cycle;     *)
(* when the camera is not initialized, or the capture or the motion        *)
(* analysis of a tick raises, the tick is skipped (its frame is not        *)
(* written), the loop sleeps 1 s (camera) or 0.1 s (exception) and only    *)
(* then goes to the next acquisition; when the face analysis raises,       *)
(* recognize_faces returns the frame, the tick goes on to write it and     *)
(* there is no pause.                                                      *)
C13_LoopSurvivesErrors ==
    [][ /\ (raised = "none" /\ raised' \in {"camera", "capture", "motion"})
             => /\ pc' = "sleep"
                /\ pause' = (IF raised' = "camera" THEN 10 ELSE 1)
                /\ current_frame' = current_frame
        /\ (raised = "none" /\ raised' = "faces")
             => /\ pc' = "write"
                /\ pause' = 0
                /\ frame' = frame
        /\ (pc = "sleep" /\ pc' # "sleep") => (pc' = "capture" /\ pause >= 1)
        /\ (pc = "capture" /\ pc' # "capture") => pc' \in {"motion", "sleep"}
        /\ (raised = "faces" /\ raised' # "faces")
             => (pc = "writing" /\ pc' = "capture" /\ current_frame' = frame)
        /\ pc' \in {"capture", "motion", "motion_gate", "motion_capture", "motion_saving",
                    "faces", "face_gate", "face_capture", "face_saving",
                    "write", "writing", "sleep"} ]_vars

C13_Witness ==
    /\ pc = "sleep"
    /\ raised = "motion"
    /\ pause = 1
    /\ current_frame # NoFrame
    /\ accepted # <<>>

(* C14 (SpecFault): when the motion analysis or the face analysis of a     *)
(* tick raises, the failing stage still returns the frame, without the     *)
(* annotation of that stage, so that the tick goes on to write it to the   *)
(* frame slot, and the failing stage proposes no event.                    *)
C14_FailedStageReturnsFrame ==
    [][ (raised = "none" /\ raised' \in {"motion", "faces"})
          => /\ frame' # NoFrame
             /\ frame'.id = frame.id
             /\ pc' \in {"faces", "write"}
             /\ accepted' = accepted
             /\ submitted' = submitted ]_vars

(* C15 (SpecApp): when no encodings were loaded, recognize_faces returns   *)
(* the frame as it got it on every tick: no label is drawn, no face event  *)
(* is accepted, submitted or persisted, and last_face_detection_time stays *)
(* as it was; the motion stage of the same ticks accepts a motion event    *)
(* whenever its decision is true and both of its gates are open, and none  *)
(* when it raises.                                                         *)
C15_EmptyGalleryPassThrough ==
    [][ known_encodings = <<>> =>
          /\ (pc = "faces" /\ pc' # "faces")
                => /\ pc' = "write"
                   /\ frame' = frame
                   /\ uploads' = uploads
                   /\ submitted' = submitted
                   /\ accepted' = accepted
          /\ pc' # "face_gate"
          /\ last_face_detection_time' = last_face_detection_time
          /\ \A i \in 1..Len(accepted') : accepted'[i].kind = "motion"
          /\ \A i \in 1..Len(uploads') : uploads'[i].kind = "motion"
          /\ current_frame' # NoFrame => current_frame'.labels = <<>>
          /\ (pc = "motion" /\ pc' \notin {"motion", "sleep"})
                => LET decision == MotionDecision(previous_frame # NoFrame, frame.diff, frame.bg)
                   IN  (pc' = "motion_gate") <=> decision.motion_detected
          /\ (pc = "motion" /\ pc' = "sleep") => accepted' = accepted /\ submitted' = submitted
          /\ (pc = "motion_gate" /\ pc' # "motion_gate")
                => LET open == /\ lv.current_time - last_motion_time > motion_cooldown
                               /\ clock - last_firebase_upload_time >= FIREBASE_UPLOAD_DELAY
                   IN  IF open
                       THEN accepted' = Append(accepted, [kind |-> "motion",
                                                          time |-> lv.current_time,
                                                          at   |-> clock, submitted |-> submitted])
                       ELSE accepted' = accepted ]_vars

C15_Witness ==
    /\ known_encodings = <<>>
    /\ known_names # <<>>
    /\ current_frame # NoFrame
    /\ current_frame.id = "both"
    /\ Len(current_frame.faces) = 2
    /\ current_frame.labels = <<>>
    /\ Len(accepted) = 2
    /\ Len(uploads) = 2

(* C16 (SpecStatus): every step of a call of get_firebase_upload_status(), *)
(* in any state the callers of save_* and the deferred threads can be in   *)
(* and with their steps falling between its own, leaves                    *)
(* last_firebase_upload_time, the activations of save_*, the deferred      *)
(* threads, the persistence history, the cooldown timestamps and the clock *)
(* as they were, and starts no thread; what it returns is computed from    *)
(* the clock and the global as it read them.                               *)
C16_StatusIsPureRead ==
    [][ (status' # status)
          => /\ last_firebase_upload_time' = last_firebase_upload_time
             /\ call' = call
             /\ threads' = threads
             /\ uploads' = uploads
             /\ submitted' = submitted
             /\ last_motion_time' = last_motion_time
             /\ last_face_detection_time' = last_face_detection_time
             /\ clock' = clock
             /\ status.pc = "idle" => status'.current_time = clock
             /\ status.pc = "read"
                   => status'.time_since_last_upload
                         = status.current_time - last_firebase_upload_time
             /\ status.pc = "return"
                   => /\ output'[1].last_upload_time = last_firebase_upload_time
                      /\ output'[1].time_since_last_upload = status.time_since_last_upload
                      /\ output'[1].can_upload_now
                            = (status.time_since_last_upload >= FIREBASE_UPLOAD_DELAY) ]_vars

C16_Witness ==
    /\ output # <<>>
    /\ output[1].can_upload_now
    /\ output[1].time_since_last_upload >= BootTime
    /\ output[1].last_upload_time > 0
    /\ \E t \in threads : t.pc = "sleep"
    /\ uploads # <<>>

(* The deferred upload threads that are sleeping: started, not yet run.    *)
Outstanding == {t \in threads : t.pc = "sleep"}

(* The tick in progress has decided that there is no motion.               *)
QuietTick ==
    /\ pc = "motion"
    /\ ~MotionDecision(previous_frame # NoFrame, frame.diff, frame.bg).motion_detected

(* C17, as claimed (SpecAppLive): while the producer loop detects motion   *)
(* on every tick, deferred upload tasks pile up: two or more of them come  *)
(* to be outstanding at the same time.                                     *)
C17_SustainedMotionPilesUp ==
    <>(QuietTick \/ Cardinality(Outstanding) >= 2)

(* C17, amended (SpecAppLive): save_* sets no bound on the deferred tasks   *)
(* it starts, but the producer loop never brings one about: it enters      *)
(* save_* only when get_firebase_upload_status() says can_upload_now, so   *)
(* that a tick that detects motion while the gate is closed submits        *)
(* nothing and starts no task, and under motion on every tick the number   *)
(* of outstanding deferred tasks stays 0.                                  *)
C17_ProducerNeverPilesUp ==
    [][ /\ Cardinality(Outstanding') = 0
        /\ threads' = {}
        /\ ( /\ pc = "motion_gate" /\ pc' # pc
              /\ ~get_firebase_upload_status.can_upload_now )
             => /\ submitted' = submitted
                /\ call' = call
                /\ pc' \in {"faces", "sleep"} ]_vars

C17_Witness ==
    /\ pc = "faces"
    /\ motion_detected
    /\ motion_timer = clock
    /\ current_frame # NoFrame
    /\ current_frame.motion_text
    /\ previous_frame.id \in {"moving", "both"}
    /\ Len(uploads) = 1
    /\ uploads[1].kind = "motion"
    /\ clock - last_firebase_upload_time = 27
    /\ Outstanding = {}

(* C18 (Spec): a deferred upload thread never runs before the time of the  *)
(* submission that started it; when it runs it first makes the persistence *)
(* call, last_firebase_upload_time staying as it is, and then sets         *)
(* last_firebase_upload_time to the clock read at that moment, whatever    *)
(* the time of the submission and the time the thread was due.             *)
C18_DeferredStoresRunTime ==
    [][ /\ \A c \in Callers :
              (call[c].pc = "schedule" /\ call'[c].pc = "returned")
                 => \A t \in threads' \ threads :
                       /\ t.pc = "sleep"
                       /\ t.wake >= call[c].current_time
        /\ \A t \in threads :
              /\ (t.pc = "sleep" /\ t \notin threads')
                    => /\ clock >= t.wake
                       /\ uploads' = Append(uploads, [ev |-> t.ev, kind |-> t.kind,
                                                      time |-> clock, via |-> "deferred"])
                       /\ last_firebase_upload_time' = last_firebase_upload_time
                       /\ [t EXCEPT !.pc = "store"] \in threads'
              /\ (t.pc = "store" /\ t \notin threads')
                    => /\ last_firebase_upload_time' = clock'
                       /\ clock' = clock
                       /\ uploads' = uploads
                       /\ \E i \in 1..Len(uploads) :
                             /\ uploads[i].ev = t.ev
                             /\ uploads[i].via = "deferred"
                             /\ uploads[i].time <= clock ]_vars

C18_Witness ==
    /\ threads = {}
    /\ Len(uploads) = 2
    /\ uploads[1] = [ev |-> 1, kind |-> "motion", time |-> 40, via |-> "immediate"]
    /\ uploads[2].via = "deferred"
    /\ uploads[2].time = 70
    /\ last_firebase_upload_time = 75

(* C19 (SpecApp): a motion event is accepted, and save_motion_detection    *)
(* entered, only in a tick whose own motion decision is true; a tick whose *)
(* motion decision is false accepts and submits nothing in its motion      *)
(* stage and leaves last_motion_time as it is, also while                  *)
(* self.motion_detected is still True from an earlier tick and both gates  *)
(* are open; so does one that raises.                                      *)
C19_MotionEventNeedsMotion ==
    [][ LET decision == MotionDecision(previous_frame # NoFrame, frame.diff, frame.bg)
        IN  /\ ( /\ accepted' # accepted
                  /\ accepted'[Len(accepted')].kind = "motion" )
                 => pc = "motion_gate"
            /\ (pc # "motion_gate" /\ pc' = "motion_gate")
                 => (pc = "motion" /\ decision.motion_detected)
            /\ (pc = "motion" /\ pc' # "motion" /\ ~decision.motion_detected)
                 => /\ accepted' = accepted
                    /\ submitted' = submitted
                    /\ last_motion_time' = last_motion_time
                    /\ motion_timer' = motion_timer
                    /\ pc' \in {"faces", "sleep"}
            /\ (submitted' # submitted /\ call'[Producer].kind = "motion")
                 => /\ pc = "motion_capture"
                    /\ motion_timer = lv.current_time
                    /\ accepted[Len(accepted)].kind = "motion"
                    /\ accepted[Len(accepted)].time = lv.current_time ]_vars

C19_Witness ==
    /\ pc = "faces"
    /\ lv = NoLocals
    /\ frame.id \in {"still", "face"}
    /\ motion_detected
    /\ frame.motion_text
    /\ clock - motion_timer = motion_display_duration
    /\ clock - last_motion_time > motion_cooldown
    /\ get_firebase_upload_status.can_upload_now
    /\ uploads # <<>>
    /\ \A i \in 1..Len(accepted) : accepted[i].kind = "face"

(* C20 (SpecApp): the motion stage of a tick whose motion decision is true *)
(* sets self.motion_detected and sets self.motion_timer to the time of the *)
(* tick; the motion stage of a tick whose decision is false leaves the     *)
(* timer, and clears the flag if more than motion_display_duration has     *)
(* passed since the timer and leaves the flag otherwise; no other step     *)
(* changes the flag or the timer, and whether the tick accepts a motion    *)
(* event is the same for every value of the flag and the timer: decision,  *)
(* cooldown and upload gate alone.  (A motion stage that raises before it  *)
(* comes to the flag, line 188, changes neither flag nor timer.)           *)
C20_DisplayWindow ==
    [][ LET decision == MotionDecision(previous_frame # NoFrame, frame.diff, frame.bg)
            open     == /\ lv.current_time - last_motion_time > motion_cooldown
                        /\ clock - last_firebase_upload_time >= FIREBASE_UPLOAD_DELAY
            cut_short == /\ pc' = "sleep"
                         /\ motion_detected' = motion_detected
                         /\ motion_timer' = motion_timer
        IN  /\ (pc = "motion" /\ pc' # "motion" /\ decision.motion_detected)
                 => \/ /\ motion_detected'
                       /\ motion_timer' = clock
                    \/ cut_short
            /\ (pc = "motion" /\ pc' # "motion" /\ ~decision.motion_detected)
                 => \/ /\ motion_timer' = motion_timer
                       /\ motion_detected' = (IF clock - motion_timer > motion_display_duration
                                              THEN FALSE ELSE motion_detected)
                    \/ cut_short
            /\ pc # "motion"
                 => /\ motion_detected' = motion_detected
                    /\ motion_timer' = motion_timer
            /\ (pc = "motion" /\ pc' # "motion")
                 => /\ accepted' = accepted
                    /\ pc' # "sleep" => ((pc' = "motion_gate") <=> decision.motion_detected)
            /\ (pc = "motion_gate" /\ pc' # "motion_gate")
                 => (accepted' # accepted <=> open) ]_vars

C20_Witness ==
    /\ pc = "write"
    /\ frame.id = "still"
    /\ previous_frame.id = "still"
    /\ motion_detected
    /\ frame.motion_text
    /\ clock - motion_timer = motion_display_duration
    /\ accepted # <<>>

(* C21 (SpecConfidence): the confidence of a motion event is area / 10     *)
(* percent clamped to [0, 100]: 0 for area 0, 100 for area 1000 and for    *)
(* every area above 1000, and never outside [0, 100].                      *)
C21_ConfidenceClamped ==
    output # <<>> =>
        LET area == input.motion_area
            conf == output[1]
        IN  /\ conf >= 0
            /\ conf <= 100 * 100
            /\ area <= 1000 => conf = area * 10
            /\ area >= 1000 => conf = 100 * 100
            /\ area = 0 => conf = 0

C21_Witness ==
    /\ output # <<>>
    /\ input.motion_area > 1000
    /\ output[1] = 100 * 100

(* C22, as claimed (SpecFault): the motion stage of every tick sets        *)
(* self.previous_frame to the frame of the tick as captured, whether the   *)
(* tick has motion or not and whether its event is accepted or held back   *)
(* by the cooldown or by the upload gate; no other step changes it, so     *)
(* that when a tick has ended, previous_frame is the frame of that tick.   *)
C22_PreviousFrameEveryTick ==
    [][ /\ (pc = "motion" /\ pc' # "motion")
             => /\ previous_frame' = frame
                /\ previous_frame' \in Scenes
        /\ pc # "motion" => previous_frame' = previous_frame
        /\ (pc = "writing" /\ pc' = "capture")
             => previous_frame' = [current_frame' EXCEPT !.motion_text = FALSE, !.labels = <<>>] ]_vars

(* The frame lock as both sections use it: at most one thread is inside,   *)
(* the producer exactly while it writes and a consumer exactly while it    *)
(* reads; the slot is written and read only inside; the thread inside      *)
(* leaves with its next step, which releases the lock, also when the       *)
(* encoding raises; and while the lock is held no other step takes it or   *)
(* changes the slot.                                                       *)
LockDiscipline ==
    /\ Cardinality(frame_lock') <= 1
    /\ (Producer \in frame_lock') <=> (pc' = "writing")
    /\ \A k \in 1..NumReaders : (k \in frame_lock') <=> (reader'[k].pc = "locked")
    /\ (current_frame' # current_frame) => frame_lock = {Producer}
    /\ \A k \in 1..NumReaders :
          (reader'[k].got # reader[k].got /\ reader'[k].got # <<>>) => frame_lock = {k}
    /\ (pc = "writing" /\ pc' # "writing")
          => (frame_lock' = {} /\ pc' = "capture")
    /\ \A k \in 1..NumReaders :
          (reader[k].pc = "locked" /\ reader'[k] # reader[k])
             => (frame_lock' = {} /\ reader'[k].pc \in {"returned", "raised"})
    /\ (frame_lock # {} /\ frame_lock' # {})
          => (frame_lock' = frame_lock /\ current_frame' = current_frame)

(* C23, as claimed (SpecStreamLive): the lock discipline, and neither the  *)
(* producer nor a consumer that asks for the lock is kept from it for      *)
(* ever: the producer at its with statement comes to write, and a consumer *)
(* at its with statement comes to read.                                    *)
C23_NeverBlockedForever ==
    /\ [][LockDiscipline]_vars
    /\ (pc = "write") ~> (pc = "writing")
    /\ \A k \in 1..NumReaders : (reader[k].pc = "waiting") ~> (reader[k].pc = "locked")

(* C23, amended (SpecStreamLive): the write of the frame slot by the       *)
(* producer and the read of it by every consumer are critical sections of  *)
(* one lock, at most one thread being inside at a time; the thread inside  *)
(* leaves with its next step, which releases the lock, also when the       *)
(* encoding raises; the producer never holds the lock while it acquires a  *)
(* frame, sleeps or saves an event; so a lock that is held comes to be     *)
(* free, and a thread (the producer or a consumer) that asks for the lock  *)
(* is kept from it for ever only if other threads take the lock again and  *)
(* again.                                                                  *)
C23_FrameLockDiscipline ==
    /\ [][LockDiscipline]_vars
    /\ []<>(frame_lock = {})
    /\ []<>(pc # "write" \/ (frame_lock # {} /\ frame_lock # {Producer}))
    /\ \A k \in 1..NumReaders :
          []<>(reader[k].pc # "waiting" \/ (frame_lock # {} /\ frame_lock # {k}))

C23_Witness ==
    \E k, j \in 1..NumReaders :
        /\ reader[k].pc = "raised"
        /\ reader[j].pc = "locked"
        /\ frame_lock = {j}
        /\ pc = "write"
        /\ current_frame # NoFrame

(* C24 (Spec): every save_* call that takes the deferred branch computes   *)
(* its delay as FIREBASE_UPLOAD_DELAY less the time from                   *)
(* last_firebase_upload_time, as the call reads it, to its current_time,   *)
(* and starts a thread of its own, whatever threads are already waiting,   *)
(* that is due that delay after it was started; a waiting thread leaves    *)
(* only by making its persistence call.  (The witness: two calls in one    *)
(* closed window, both persisted by their threads, less than               *)
(* FIREBASE_UPLOAD_DELAY apart.)                                           *)
C24_DeferredNotSerialized ==
    [][ /\ \A c \in Callers :
              /\ (call[c].pc = "delay" /\ call'[c] # call[c])
                    => /\ call'[c].remaining_delay =
                             FIREBASE_UPLOAD_DELAY
                               - (call[c].current_time - last_firebase_upload_time)
                       /\ threads' = threads
              /\ (call[c].pc = "schedule" /\ call'[c].pc = "returned")
                    => LET own == [ ev       |-> call[c].ev,
                                    kind     |-> call[c].kind,
                                    snapshot |-> Snapshot(call[c]),
                                    wake     |-> clock + call[c].remaining_delay,
                                    pc       |-> "sleep" ]
                       IN  IF call[c].remaining_delay >= 0
                           THEN /\ own \notin threads
                                /\ threads' = threads \cup {own}
                           ELSE threads' = threads
        /\ \A t \in threads :
              (t.pc = "sleep" /\ t \notin threads')
                 => /\ Len(uploads') = Len(uploads) + 1
                    /\ uploads'[Len(uploads')].ev = t.ev
                    /\ uploads'[Len(uploads')].via = "deferred" ]_vars

C24_Witness ==
    /\ Len(uploads) = 3
    /\ uploads[1].via = "immediate"
    /\ uploads[2].via = "deferred"
    /\ uploads[3].via = "deferred"
    /\ uploads[2].time >= uploads[1].time + FIREBASE_UPLOAD_DELAY
    /\ Gap(uploads, 2, 3) < FIREBASE_UPLOAD_DELAY
    /\ threads = {}

(* A motion detection about to be held back by the upload gate alone.      *)
MotionBlocked ==
    /\ pc = "motion_gate"
    /\ lv.current_time - last_motion_time > motion_cooldown
    /\ clock - last_firebase_upload_time < FIREBASE_UPLOAD_DELAY

(* A face about to be held back by the upload gate alone.                  *)
FaceBlocked ==
    /\ pc = "face_gate"
    /\ lv.current_time - last_face_detection_time > face_detection_cooldown
    /\ clock - last_firebase_upload_time < FIREBASE_UPLOAD_DELAY

(* The tick in progress has no face to recognize.                          *)
NoFaceTick ==
    /\ pc = "faces"
    /\ Len(frame.faces) = 0

(* C25, as claimed (SpecRetry): a detection held back by the upload gate   *)
(* alone, its kind being detected on every later tick, leads to an event   *)
(* of its kind being accepted, also when the other kind is detected on     *)
(* every tick as well.                                                     *)
C25_RetryLeadsToAcceptance ==
    /\ MotionBlocked ~> (pc = "motion_capture" \/ QuietTick)
    /\ FaceBlocked ~> (pc = "face_capture" \/ NoFaceTick)

(* C25, amended (SpecRetry): a detection held back by the upload gate      *)
(* alone, its kind being detected on every later tick, leads to an event   *)
(* of its kind being accepted unless an event of the other kind is         *)
(* accepted first: the event that takes the gate when it opens closes it   *)
(* again for the other kind.                                               *)
C25_RetryUnlessOtherKindFirst ==
    /\ MotionBlocked ~> (pc = "motion_capture" \/ QuietTick \/ pc = "face_capture")
    /\ FaceBlocked ~> (pc = "face_capture" \/ NoFaceTick \/ pc = "motion_capture")

C25_Witness ==
    /\ pc = "face_capture"
    /\ lv.region = 1
    /\ clock - last_motion_time = FIREBASE_UPLOAD_DELAY
    /\ clock - last_firebase_upload_time = FIREBASE_UPLOAD_DELAY
    /\ clock - last_face_detection_time > face_detection_cooldown
    /\ motion_timer = clock
    /\ current_frame # NoFrame
    /\ current_frame.id = "both"
    /\ Len(current_frame.labels) = 2

(* C26 (SpecFace): whenever some entry of the gallery is within tolerance, *)
(* the entry the code selects (the first of least distance over all        *)
(* entries, then required to match) is the first of least distance among   *)
(* the matching entries, and the name and the confidence it gives are      *)
(* those of that entry.                                                    *)
C26_BestMatchEquivalence ==
    output # <<>> =>
        LET d        == input.face_distances
            matching == {i \in DOMAIN d : d[i] <= Tolerance}
        IN  matching # {} =>
              LET best == CHOOSE i \in matching :
                             /\ \A j \in matching : d[i] <= d[j]
                             /\ \A j \in matching : j < i => d[j] > d[i]
                  confidence == One - d[best]
              IN  /\ argmin(d) = best
                  /\ compare_faces(d)[argmin(d)]
                  /\ output[1].confidence = confidence
                  /\ output[1].name = (IF confidence >= MinConfidence
                                        THEN input.names[best] ELSE "Unknown")

C26_Witness ==
    /\ output # <<>>
    /\ Len(input.face_distances) = 3
    /\ input.face_distances = <<42, 51, 40>>
    /\ input.names[1] # input.names[3]
    /\ output[1] = [name |-> input.names[3], confidence |-> 60]

(* C27 (SpecApp): with the producer loop as the only caller, every save_*  *)
(* call is entered at a time at which the time since                       *)
(* last_firebase_upload_time is at least FIREBASE_UPLOAD_DELAY, also when  *)
(* time has passed since the tick asked get_firebase_upload_status(), and  *)
(* its branch test, whenever it is made, takes the immediate branch; no    *)
(* call is ever on the deferred branch or returns "scheduled", no deferred *)
(* thread exists and every persistence call is made by the producer        *)
(* itself.                                                                 *)
C27_ProducerAlwaysImmediate ==
    [][ /\ submitted' # submitted
             => /\ call'[Producer].pc = "test"
                /\ call'[Producer].current_time >= lv.current_time
                /\ call'[Producer].current_time - last_firebase_upload_time
                      >= FIREBASE_UPLOAD_DELAY
        /\ (call[Producer].pc = "test" /\ call'[Producer].pc # "test")
             => call'[Producer].pc = "upload"
        /\ call'[Producer].pc \notin {"delay", "schedule"}
        /\ call'[Producer].result.status # "scheduled"
        /\ threads' = {}
        /\ \A i \in 1..Len(uploads') : uploads'[i].via = "immediate" ]_vars

C27_Witness ==
    /\ pc \in {"motion_saving", "face_saving"}
    /\ call[Producer].pc = "upload"
    /\ lv.current_time - last_firebase_upload_time = FIREBASE_UPLOAD_DELAY
    /\ call[Producer].current_time > lv.current_time
    /\ Len(uploads) = 1

(* C28 (Spec): last_firebase_upload_time never decreases, in any           *)
(* interleaving of the immediate branch (which stores the time read before *)
(* its persistence call) and the deferred threads (which store the time    *)
(* read after theirs).                                                     *)
C28_TimestampNeverDecreases ==
    [][ last_firebase_upload_time' >= last_firebase_upload_time ]_vars

(* C29 (SpecStatus): the status computed by get_firebase_upload_status()   *)
(* from a clock value and a value of last_firebase_upload_time has         *)
(* can_upload_now true exactly when the branch test of save_*, made on the *)
(* same two values, takes the immediate branch; its remaining_delay is     *)
(* never negative, is 0 when can_upload_now is true and is otherwise the   *)
(* remaining_delay the deferred branch of save_* computes; the dict        *)
(* returned carries these values.                                          *)
C29_GateStatusAgreement ==
    [][ /\ (status.pc = "read" /\ status'.pc = "return")
            => LET current_time == status.current_time
                   immediate    == UploadsImmediately(current_time, last_firebase_upload_time)
               IN  /\ (status'.remaining_delay <= 0) <=> immediate
                   /\ status'.remaining_delay >= 0
                   /\ immediate => status'.remaining_delay = 0
                   /\ ~immediate
                         => status'.remaining_delay
                               = RemainingDelay(current_time, last_firebase_upload_time)
                   /\ status'.time_since_last_upload
                         = current_time - last_firebase_upload_time
        /\ (status.pc = "return" /\ status'.pc = "idle")
            => /\ output'[1].can_upload_now = (status.remaining_delay <= 0)
               /\ output'[1].remaining_delay = status.remaining_delay
               /\ output'[1].time_since_last_upload = status.time_since_last_upload ]_vars

C29_Witness ==
    /\ output # <<>>
    /\ last_firebase_upload_time > 0
    /\ clock - last_firebase_upload_time > FIREBASE_UPLOAD_DELAY
    /\ output[1].can_upload_now
    /\ output[1].remaining_delay = 0
    /\ \E t \in threads : t.pc = "sleep"

(* C30 (SpecFault): an event that a tick accepted sets the time of its     *)
(* kind to the current_time of the tick when its capture step returns,     *)
(* whether                                                                 *)
(* save_* returned a document, returned None because the persistence call  *)
(* failed, or was never called because the capture step raised before it   *)
(* (nothing is persisted then and last_firebase_upload_time stays); and    *)
(* the immediate branch of save_* sets last_firebase_upload_time to the    *)
(* time it read, whether its persistence call failed or not.               *)
C30_FailedAttemptConsumesWindows ==
    [][ /\ accepted' # accepted
             => /\ pc' \in {"motion_capture", "face_capture"}
                /\ accepted'[Len(accepted')].time = lv'.current_time
                /\ accepted'[Len(accepted')].at = clock
        /\ (pc = "motion_capture" /\ pc' # pc) => pc' = "motion_saving"
        /\ (pc = "face_capture" /\ pc' # pc) => pc' = "face_saving"
        /\ (pc \in {"motion_capture", "face_capture"} /\ pc' # pc /\ submitted' = submitted)
             => /\ uploads' = uploads
                /\ last_firebase_upload_time' = last_firebase_upload_time
                /\ call' = call
        /\ (pc = "motion_saving" /\ pc' # pc)
             => /\ last_motion_time' = lv.current_time
                /\ \E i \in 1..Len(accepted) :
                      /\ accepted[i].kind = "motion"
                      /\ accepted[i].time = lv.current_time
        /\ (pc = "face_saving" /\ pc' # pc)
             => /\ last_face_detection_time' = lv.current_time
                /\ \E i \in 1..Len(accepted) :
                      /\ accepted[i].kind = "face"
                      /\ accepted[i].time = lv.current_time
        /\ (call[Producer].pc = "store" /\ call'[Producer].pc # "store")
             => /\ last_firebase_upload_time' = call[Producer].current_time
                /\ call'[Producer].result.status \in {"doc", "none"} ]_vars

C30_Witness ==
    /\ last_motion_time = BootTime
    /\ Len(accepted) = 2
    /\ accepted[1].kind = "motion"
    /\ accepted[2].kind = "face"
    /\ Len(uploads) = 1
    /\ uploads[1].kind = "face"
    /\ pc = "face_saving"
    /\ call[Producer].pc = "returned"
    /\ call[Producer].result.status = "none"
    /\ last_firebase_upload_time >= accepted[2].at
    /\ uploads[1].time > last_firebase_upload_time


(* The events of the tick in progress at positions i (motion) and j        *)
(* (face) were both accepted.                                              *)
BothInTick(log, i, j) ==
    /\ log[i].kind = "motion"
    /\ log[j].kind = "face"

(* The persistence calls for motion events made by save_* calls entered    *)
(* after the first n.                                                      *)
MotionUploadsSince(log, n) ==
    {k \in 1..Len(log) : log[k].kind = "motion" /\ log[k].ev > n}

(* C31, as claimed (SpecTick): a tick whose motion decision is true, with  *)
(* the motion cooldown elapsed and the upload gate open, accepts the       *)
(* motion event; and a tick that accepted a motion event accepts no face   *)
(* event unless the face stage calls get_firebase_upload_status()          *)
(* FIREBASE_UPLOAD_DELAY or more after the current_time of the motion      *)
(* stage.                                                                  *)
C31_MotionPrecedence ==
    [][ /\ ( /\ pc = "motion_gate" /\ pc' # pc
             /\ lv.current_time - last_motion_time > motion_cooldown
             /\ get_firebase_upload_status.can_upload_now )
              => tick_accepted' = <<[kind |-> "motion", time |-> lv.current_time, at |-> clock, submitted |-> submitted]>>
        /\ \A i, j \in 1..Len(tick_accepted') :
              BothInTick(tick_accepted', i, j)
                 => tick_accepted'[j].at - tick_accepted'[i].time >= FIREBASE_UPLOAD_DELAY ]_vars

(* C31, amended (SpecTick): the same, for a tick whose                     *)
(* capture_motion_photo entered save_motion_detection: then a face event   *)
(* of the tick is accepted only when get_firebase_upload_status() is       *)
(* called FIREBASE_UPLOAD_DELAY or more after the time                     *)
(* save_motion_detection read, and always after the motion event.  When    *)
(* the capture step raised before save_motion_detection, nothing was       *)
(* uploaded for the motion event, the upload gate is as it was, open, and  *)
(* the next face region whose cooldown has elapsed is accepted in the same *)
(* tick.                                                                   *)
C31_MotionPrecedenceWhenSubmitted ==
    [][ /\ ( /\ pc = "motion_gate" /\ pc' # pc
             /\ lv.current_time - last_motion_time > motion_cooldown
             /\ get_firebase_upload_status.can_upload_now )
              => tick_accepted' = <<[kind |-> "motion", time |-> lv.current_time, at |-> clock, submitted |-> submitted]>>
        /\ \A i, j \in 1..Len(tick_accepted') :
              BothInTick(tick_accepted', i, j) => i < j
        /\ (call[Producer].pc = "store" /\ call'[Producer].pc # "store")
              => /\ last_firebase_upload_time' = call[Producer].current_time
                 /\ tick_accepted # <<>>
                 /\ call[Producer].current_time >= tick_accepted[Len(tick_accepted)].at
        /\ (last_firebase_upload_time' # last_firebase_upload_time)
              => call[Producer].pc = "store"
        /\ ( /\ pc = "face_gate"
             /\ tick_accepted' # tick_accepted
             /\ tick_accepted # <<>>
             /\ tick_accepted[1].kind = "motion"
             /\ MotionUploadsSince(uploads, tick_accepted[1].submitted) # {} )
              => /\ clock - last_firebase_upload_time >= FIREBASE_UPLOAD_DELAY
                 /\ last_firebase_upload_time >= tick_accepted[1].at
        /\ (pc = "motion_capture" /\ pc' # pc /\ submitted' = submitted)
              => /\ uploads' = uploads
                 /\ last_firebase_upload_time' = last_firebase_upload_time
                 /\ get_firebase_upload_status.can_upload_now
        /\ ( /\ pc = "face_gate" /\ pc' # pc
             /\ Len(tick_accepted) = 1
             /\ tick_accepted[1].kind = "motion"
             /\ MotionUploadsSince(uploads, tick_accepted[1].submitted) = {}
             /\ lv.current_time - last_face_detection_time > face_detection_cooldown )
              => tick_accepted' = Append(tick_accepted, [kind |-> "face",
                                                         time |-> lv.current_time,
                                                         at   |-> clock, submitted |-> submitted]) ]_vars

C31_Witness ==
    /\ pc = "write"
    /\ frame.id = "both"
    /\ Len(frame.labels) = 2
    /\ Len(tick_accepted) = 1
    /\ tick_accepted[1].kind = "motion"
    /\ clock - tick_accepted[1].time < FIREBASE_UPLOAD_DELAY
    /\ MotionUploadsSince(uploads, tick_accepted[1].submitted) # {}
    /\ clock - last_face_detection_time > face_detection_cooldown
    /\ last_face_detection_time > 0


(* The face events accepted in the tick in progress.                       *)
FacesInTick(log) == {i \in 1..Len(log) : log[i].kind = "face"}

(* The persistence calls made for face events since the tick in progress   *)
(* accepted its first event.                                               *)
FaceUploadsInTick ==
    IF tick_accepted = <<>> THEN {}
    ELSE {k \in 1..Len(uploads) :
             uploads[k].kind = "face" /\ uploads[k].ev > tick_accepted[1].submitted}

(* C32, as claimed (SpecTick): at most one persistence call for a face     *)
(* event is made in a tick, however many face regions its frame has.       *)
C32_OneFaceEventPerTick ==
    Cardinality(FaceUploadsInTick) <= 1

(* C32, amended (SpecTick): a pass of the loop of recognize_faces handles  *)
(* one region and accepts at most one event, for which                     *)
(* save_face_detection is entered at most once; a region handled while the *)
(* time since last_face_detection_time is not more than the cooldown is    *)
(* not accepted, so two face events of one tick are more than              *)
(* face_detection_cooldown apart, and a tick makes no more persistence     *)
(* calls for face events than it accepted face events.                     *)
C32_OneFaceEventPerRegion ==
    [][ /\ (pc \in {"faces", "face_gate"} /\ tick_accepted' # tick_accepted)
             => /\ pc = "face_gate"
                /\ lv' = lv
                /\ lv.region <= Len(frame.faces)
                /\ tick_accepted' = Append(tick_accepted, [kind |-> "face",
                                                           time |-> lv.current_time,
                                                           at   |-> clock, submitted |-> submitted])
                /\ lv.current_time - last_face_detection_time > face_detection_cooldown
                /\ pc' = "face_capture"
        /\ (pc # "face_gate" /\ pc' = "face_gate")
             => /\ pc = "faces"
                /\ lv'.region = lv.region + 1
                /\ tick_accepted' = tick_accepted
        /\ (pc = "face_gate" /\ pc' # pc
             /\ lv.current_time - last_face_detection_time <= face_detection_cooldown)
             => tick_accepted' = tick_accepted
        /\ (submitted' # submitted /\ call'[Producer].kind = "face")
             => /\ pc = "face_capture" /\ pc' = "face_saving"
                /\ lv' = lv
        /\ pc \in {"face_gate", "face_capture", "face_saving"} => lv'.region = lv.region
        /\ tick_accepted' # <<>>
             => Cardinality(FacesInTick(tick_accepted')) <= Len(frame'.faces)
        /\ \A i, j \in FacesInTick(tick_accepted') :
              i < j => Gap(tick_accepted', i, j) > face_detection_cooldown
        /\ Cardinality(FaceUploadsInTick') <= Cardinality(FacesInTick(tick_accepted')) ]_vars

C32_Witness ==
    /\ pc = "write"
    /\ frame.id = "both"
    /\ Len(frame.labels) = 2
    /\ Len(tick_accepted) = 1
    /\ tick_accepted[1].kind = "face"
    /\ last_face_detection_time = tick_accepted[1].time
    /\ Cardinality(FaceUploadsInTick) = 1
    /\ clock - last_face_detection_time < face_detection_cooldown
    /\ Len(accepted) > 1


(* C33 (SpecMotionEvent): the area of a motion event is the sum of the     *)
(* areas of the background-model contours that are above min_motion_area,  *)
(* and of no other contour; so an event whose motion comes from the        *)
(* frame difference alone has area 0 and confidence 0, and an event with   *)
(* an area other than 0 has an area above min_motion_area.                 *)
C33_ReportedArea ==
    (output # <<>> /\ output[1] # <<>>) =>
        LET event == output[1][1]
            large == SelectSeq(input.motion_contours, IsLarge)
        IN  /\ event.motion_area = SumSeq(large)
            /\ large = <<>> => /\ event.motion_area = 0
                               /\ event.confidence = 0
                               /\ input.has_previous
                               /\ \E i \in DOMAIN input.diff_contours :
                                     input.diff_contours[i] > min_motion_area
            /\ event.motion_area # 0 => event.motion_area > event.min_area
            /\ event.min_area = min_motion_area

C33_Witness ==
    /\ output # <<>>
    /\ output[1] # <<>>
    /\ output[1][1].motion_area = 0
    /\ output[1][1].confidence = 0
    /\ input.has_previous
    /\ Len(input.motion_contours) = 2
    /\ \A i \in DOMAIN input.motion_contours :
          input.motion_contours[i] > 0 /\ input.motion_contours[i] <= min_motion_area

=============================================================================
